---- MODULE Spec2Model ----
(***************************************************************************)
(* Model of the document understanding pipeline of misalud-entendida:      *)
(* the drug-name matcher (src/api/drug_matcher.py), the medication         *)
(* enricher (src/pipelines/prescription_enrichment.py), the document       *)
(* router (src/pipelines/document_router.py), the orchestrator             *)
(* (src/pipelines/document_orchestrator.py), the single-task handlers of   *)
(* src/app.py and the grounded chat (src/pipelines/document_chat.py).      *)
(*                                                                         *)
(* Python strings are TLA+ strings handled character by character with     *)
(* SubSeq/Len/\o.  Python floats are modelled as exact reduced fractions   *)
(* <<numerator, denominator>>.  None is the empty tuple and a present      *)
(* optional value x is <<x>>.                                              *)
(***************************************************************************)
EXTENDS Integers, Sequences, FiniteSets, TLC

(***************************************************************************)
(* Bounds of the model.                                                    *)
(***************************************************************************)
MaxWords == 2       \* words of a medication name
MaxResults == 2     \* rows returned by one registry query
MaxPrices == 2      \* items returned by one price request
MaxItems == 2       \* items of one extraction

(***************************************************************************)
(* Characters and strings (str.upper, str.strip, str.split, " ".join).     *)
(***************************************************************************)
Ch(s, i) == SubSeq(s, i, i)

LowerLetters == "abcdefghijklmnopqrstuvwxyzáéíóúñ"
UpperLetters == "ABCDEFGHIJKLMNOPQRSTUVWXYZÁÉÍÓÚÑ"
Digits == {"0", "1", "2", "3", "4", "5", "6", "7", "8", "9"}
Whitespace == {" ", "\t", "\n"}

\* str.upper() of one character
UpperOf ==
    [c \in {Ch(LowerLetters, i) : i \in 1..Len(LowerLetters)} |->
        Ch(UpperLetters, CHOOSE i \in 1..Len(LowerLetters) : Ch(LowerLetters, i) = c)]

UpperCh(c) == IF c \in DOMAIN UpperOf THEN UpperOf[c] ELSE c

RECURSIVE Upper(_)
Upper(s) == IF s = "" THEN "" ELSE UpperCh(Head(s)) \o Upper(Tail(s))

RECURSIVE LStrip(_)
LStrip(s) == IF s # "" /\ Head(s) \in Whitespace THEN LStrip(Tail(s)) ELSE s

RECURSIVE RStrip(_)
RStrip(s) ==
    IF s # "" /\ Ch(s, Len(s)) \in Whitespace
    THEN RStrip(SubSeq(s, 1, Len(s) - 1)) ELSE s

Strip(s) == RStrip(LStrip(s))

\* End of the maximal run of characters of `set` starting at i (i-1 if none).
RECURSIVE RunEnd(_, _, _)
RunEnd(s, i, set) ==
    IF i <= Len(s) /\ Ch(s, i) \in set THEN RunEnd(s, i + 1, set) ELSE i - 1

\* End of the maximal run of characters not in `set` starting at i.
RECURSIVE WordEnd(_, _)
WordEnd(s, i) ==
    IF i <= Len(s) /\ Ch(s, i) \notin Whitespace THEN WordEnd(s, i + 1) ELSE i - 1

\* str.split(): the maximal runs of non-whitespace characters.
RECURSIVE SplitFrom(_, _)
SplitFrom(s, i) ==
    IF i > Len(s) THEN <<>>
    ELSE IF Ch(s, i) \in Whitespace THEN SplitFrom(s, i + 1)
    ELSE LET e == WordEnd(s, i)
         IN  <<SubSeq(s, i, e)>> \o SplitFrom(s, e + 1)

Split(s) == SplitFrom(s, 1)

\* sep.join(words)
RECURSIVE Join(_, _)
Join(words, sep) ==
    IF words = <<>> THEN ""
    ELSE IF Len(words) = 1 THEN words[1]
    ELSE words[1] \o sep \o Join(Tail(words), sep)

\* re.sub(r"\s+", " ", s)
RECURSIVE CollapseWs(_, _)
CollapseWs(s, i) ==
    IF i > Len(s) THEN ""
    ELSE IF Ch(s, i) \in Whitespace
         THEN " " \o CollapseWs(s, RunEnd(s, i, Whitespace) + 1)
         ELSE Ch(s, i) \o CollapseWs(s, i + 1)

\* needle in haystack
Contains(needle, haystack) ==
    \E i \in 1..(Len(haystack) - Len(needle) + 1) :
        SubSeq(haystack, i, i + Len(needle) - 1) = needle

(***************************************************************************)
(* Exact fractions standing for the float scores.                          *)
(***************************************************************************)
RECURSIVE GCD(_, _)
GCD(a, b) == IF b = 0 THEN a ELSE GCD(b, a % b)

Frac(n, d) == LET g == GCD(n, d) IN IF n = 0 THEN <<0, 1>> ELSE <<n \div g, d \div g>>
FAdd(a, b) == Frac(a[1] * b[2] + b[1] * a[2], a[2] * b[2])
FLess(a, b) == a[1] * b[2] < b[1] * a[2]
FGeq(a, b) == ~FLess(a, b)
FMin(a, b) == IF FLess(b, a) THEN b ELSE a
FMax(a, b) == IF FLess(a, b) THEN b ELSE a
FZero == <<0, 1>>
FOne == <<1, 1>>

(***************************************************************************)
(* src/api/drug_matcher.py                                                 *)
(***************************************************************************)
MIN_CONFIDENCE == <<1, 2>>

FORM_WORDS ==
    {"TABLETA", "TABLETAS", "TAB", "TABS",
     "CAPSULA", "CAPSULAS", "CAP", "CAPS",
     "SOLUCION", "SOL",
     "JARABE", "JAR",
     "AMPOLLA", "AMP",
     "INYECTABLE", "INY",
     "CREMA", "GEL", "POMADA",
     "GOTAS", "SUSPENSION", "SUSP",
     "COMPRIMIDO", "COMPRIMIDOS", "COMP",
     "RECUBIERTA", "RECUBIERTAS",
     "LIBERACION", "PROLONGADA",
     "ORAL", "TOPICO", "TOPICA"}

\* The unit alternatives of DOSAGE_PATTERN, in the order the regex tries them.
DosageUnits == <<"MG", "ML", "G", "MCG", "UI", "%">>

\* The unit alternative matched at position i (case-insensitive), or 0.
FirstOf(hits) == IF hits = {} THEN 0 ELSE CHOOSE k \in hits : \A j \in hits : k <= j

UnitAt(s, i) ==
    FirstOf({k \in 1..Len(DosageUnits) :
                /\ i + Len(DosageUnits[k]) - 1 <= Len(s)
                /\ Upper(SubSeq(s, i, i + Len(DosageUnits[k]) - 1)) = DosageUnits[k]})

\* DOSAGE_PATTERN anchored at position i:
\*   (\d+(?:[.,]\d+)?)\s*(MG|ML|G|MCG|UI|%)
\* The result is <<>> when there is no match there, else
\* <<[value, unit, last]>> with `last` the position of the last matched character.
\* The unit group (MG|ML|G|MCG|UI|%) at position u, alternative k (0: none),
\* after the number s[i..e2].
DosageUnitGroup(s, i, e2, u, k) ==
    IF k = 0 THEN <<>>
    ELSE <<[value |-> SubSeq(s, i, e2),
            unit |-> SubSeq(s, u, u + Len(DosageUnits[k]) - 1),
            last |-> u + Len(DosageUnits[k]) - 1]>>

\* \s* from position u0, then the unit group.
DosageSpaces(s, i, e2, u) == DosageUnitGroup(s, i, e2, u, UnitAt(s, u))

\* (?:[.,]\d+)? after the digits s[i..e1], then the rest of the pattern.
DosageFraction(s, i, e1) ==
    IF /\ e1 + 2 <= Len(s)
       /\ Ch(s, e1 + 1) \in {".", ","}
       /\ Ch(s, e1 + 2) \in Digits
    THEN DosageSpaces(s, i, RunEnd(s, e1 + 2, Digits),
                      RunEnd(s, RunEnd(s, e1 + 2, Digits) + 1, Whitespace) + 1)
    ELSE DosageSpaces(s, i, e1, RunEnd(s, e1 + 1, Whitespace) + 1)

DosageMatchAt(s, i) ==
    IF i < 1 \/ i > Len(s) \/ Ch(s, i) \notin Digits THEN <<>>
    ELSE DosageFraction(s, i, RunEnd(s, i, Digits))

\* DOSAGE_PATTERN.search(s): the leftmost match, or <<>>.
DosageSearch(s) == DosageMatchAt(s, FirstOf({i \in 1..Len(s) : DosageMatchAt(s, i) # <<>>}))

\* DOSAGE_PATTERN.sub("", s): every non-overlapping match removed, left to right.
RECURSIVE DosageSub(_, _)
DosageSub(s, i) ==
    IF i > Len(s) THEN ""
    ELSE IF DosageMatchAt(s, i) = <<>> THEN Ch(s, i) \o DosageSub(s, i + 1)
    ELSE DosageSub(s, DosageMatchAt(s, i)[1].last + 1)

ReplaceComma(s) ==
    LET F[i \in 0..Len(s)] ==
            IF i = 0 THEN ""
            ELSE F[i - 1] \o (IF Ch(s, i) = "," THEN "." ELSE Ch(s, i))
    IN  F[Len(s)]

\* A variant that keeps the form words.
FilterFormWordsKeepsAll(words) == words

\* [w for w in words if w not in FORM_WORDS]
FilterFormWords(words) == SelectSeq(words, LAMBDA w : w \notin FORM_WORDS)

\* The words of the name once the dosage is out: form words dropped, the rest
\* joined by one space, whitespace collapsed.
CleanName(removed) == CollapseWs(Strip(Join(FilterFormWords(Split(removed)), " ")), 1)

\* _normalize_drug_name after `name = name.upper().strip()`, with the first
\* DOSAGE_PATTERN match m of the name.
NormalizeUpper(name, m) ==
    IF m = <<>> THEN <<CleanName(name), "", "">>
    ELSE <<CleanName(DosageSub(name, 1)), ReplaceComma(m[1].value), Upper(m[1].unit)>>

\* _normalize_drug_name: <<normalized_name, dosage_value, dosage_unit>>
_normalize_drug_name(name) ==
    IF name = "" THEN <<"", "", "">>
    ELSE NormalizeUpper(Strip(Upper(name)), DosageSearch(Strip(Upper(name))))


\* Length of the common run of a from i and b from j, inside a[..ahi], b[..bhi].
RECURSIVE CommonRun(_, _, _, _, _, _)
CommonRun(a, i, ahi, b, j, bhi) ==
    IF i <= ahi /\ j <= bhi /\ Ch(a, i) = Ch(b, j)
    THEN 1 + CommonRun(a, i + 1, ahi, b, j + 1, bhi)
    ELSE 0

\* difflib.SequenceMatcher.find_longest_match without junk: the longest common
\* block of a[alo..ahi] and b[blo..bhi], the earliest in a, then the earliest in b.
MaxOf(S) == CHOOSE n \in S : \A m \in S : m <= n
MinOf(S) == CHOOSE n \in S : \A m \in S : n <= m

\* The earliest block in a, then in b, among the blocks `longest` of size k.
EarliestBlock(longest, i, k) == <<i, MinOf({p[2] : p \in {q \in longest : q[1] = i}}), k>>

LongestBlocks(longest, k) == EarliestBlock(longest, MinOf({p[1] : p \in longest}), k)

\* size[p]: the length of the common block starting at the pair p.
BestBlock(size, k) == LongestBlocks({p \in DOMAIN size : size[p] = k}, k)

LongestOf(size) == BestBlock(size, MaxOf({size[p] : p \in DOMAIN size}))

FindLongestMatch(a, alo, ahi, b, blo, bhi) ==
    IF alo > ahi \/ blo > bhi THEN <<alo, blo, 0>>
    ELSE LongestOf([p \in (alo..ahi) \X (blo..bhi) |->
                       CommonRun(a, p[1], ahi, b, p[2], bhi)])

\* Total size of difflib.SequenceMatcher.get_matching_blocks.
RECURSIVE MatchingSize(_, _, _, _, _, _)
RECURSIVE MatchingSizeAround(_, _, _, _, _, _, _)
\* The block m = <<i, j, k>> and the blocks to its left and to its right.
MatchingSizeAround(a, alo, ahi, b, blo, bhi, m) ==
    IF m[3] = 0 THEN 0
    ELSE m[3]
         + MatchingSize(a, alo, m[1] - 1, b, blo, m[2] - 1)
         + MatchingSize(a, m[1] + m[3], ahi, b, m[2] + m[3], bhi)

MatchingSize(a, alo, ahi, b, blo, bhi) ==
    MatchingSizeAround(a, alo, ahi, b, blo, bhi,
                       FindLongestMatch(a, alo, ahi, b, blo, bhi))

\* difflib.SequenceMatcher(None, a, b).ratio()
SequenceRatio(a, b) ==
    Frac(2 * MatchingSize(a, 1, Len(a), b, 1, Len(b)), Len(a) + Len(b))

\* _fuzzy_score on q = query.upper(), c = candidate.upper()
FuzzyUpper(q, c) ==
    IF q = c THEN FOne
    ELSE IF Contains(q, c) THEN Frac(9 * Len(c) + Len(q), 10 * Len(c))
    ELSE SequenceRatio(q, c)

_fuzzy_score(query, candidate) ==
    IF query = "" \/ candidate = "" THEN FZero
    ELSE FuzzyUpper(Upper(query), Upper(candidate))

\* A dosage match that earns nothing.
NoDosageBonus == FZero

\* dosage_bonus = 0.1
DOSAGE_BONUS == <<1, 10>>
STATUS_BONUS == <<1, 20>>

_calculate_match_score(query, record, dosage_value, dosage_unit) ==
    LET product_score == _fuzzy_score(query, record.producto)
        ingredient_score == _fuzzy_score(query, record.principioactivo)
        base_score == FMax(product_score, ingredient_score)
        dosage_bonus ==
            IF /\ dosage_value # "" /\ dosage_unit # ""
               /\ record.concentracion_valor # "" /\ record.unidadmedida # ""
               /\ dosage_value = ReplaceComma(record.concentracion_valor)
               /\ dosage_unit = Upper(record.unidadmedida)
            THEN DOSAGE_BONUS ELSE FZero
        status_bonus ==
            IF Upper(record.estadoregistro) = "VIGENTE" THEN STATUS_BONUS ELSE FZero
    IN  FMin(FOne, FAdd(FAdd(base_score, dosage_bonus), status_bonus))


None == <<>>
Some(x) == <<x>>

\* dict[key] = value on a dict held as a function from keys
DictSet(d, key, value) == (key :> value) @@ d
EmptyDict == [k \in {} |-> ""]

InsertAt(front, c, keep) ==
    SubSeq(front, 1, keep) \o <<c>> \o SubSeq(front, keep + 1, Len(front))

\* c goes after the elements of the sorted `front` that score at least as much.
InsertByScore(front, c) ==
    InsertAt(front, c, Cardinality({i \in 1..Len(front) : FGeq(front[i].score, c.score)}))

\* list.sort(key=score, reverse=True): stable, descending by score.
RECURSIVE SortByScoreDesc(_)
SortByScoreDesc(cands) ==
    IF cands = <<>> THEN <<>>
    ELSE InsertByScore(SortByScoreDesc(SubSeq(cands, 1, Len(cands) - 1)),
                       cands[Len(cands)])

\* a[lo:hi] of a Python list (0-based, hi exclusive, clipped)
Slice(seq, lo, hi) == SubSeq(seq, lo + 1, IF hi < Len(seq) THEN hi ELSE Len(seq))

Records(cands) == [i \in 1..Len(cands) |-> cands[i].record]

\* A variant that gives a weak product-name hit no match type.
ProductMatchTypeNone(score) == IF FGeq(score, <<4, 5>>) THEN "exact" ELSE "none"

\* "exact" if score >= 0.8 else "fuzzy"
ProductMatchType(score) == IF FGeq(score, <<4, 5>>) THEN "exact" ELSE "fuzzy"

\* all_candidates.append((record, score, match_type)) of Strategy 1
ProductCandidate(record, score) ==
    [record |-> record, score |-> score, match_type |-> ProductMatchType(score)]

\* Strategy 1 of match_drug_to_cum: the candidates of the product-name rows.
RECURSIVE ProductCandidates(_, _, _, _)
ProductCandidates(rows, normalized, dosage_value, dosage_unit) ==
    IF rows = <<>> THEN <<>>
    ELSE <<ProductCandidate(rows[1], _calculate_match_score(
                                         normalized, rows[1], dosage_value, dosage_unit))>>
         \o ProductCandidates(Tail(rows), normalized, dosage_value, dosage_unit)

\* A test that takes every row for a new one.
SeenNever(all_candidates, record) == FALSE

\* any(record.expedientecum == c[0].expedientecum for c in all_candidates)
SeenExpediente(all_candidates, record) ==
    \E i \in 1..Len(all_candidates) :
        all_candidates[i].record.expedientecum = record.expedientecum

\* A candidate labelled by the query that returned it, whatever its
\* active ingredient.
IngredientCandidateUncompared(record, normalized, score) ==
    [record |-> record, score |-> FMax(score, <<17, 20>>), match_type |-> "active_ingredient"]

\* The candidate Strategy 2 appends for a row not seen yet.
IngredientCandidate(record, normalized, score) ==
    IF Upper(record.principioactivo) = normalized
    THEN [record |-> record, score |-> FMax(score, <<17, 20>>),
          match_type |-> "active_ingredient"]
    ELSE [record |-> record, score |-> score, match_type |-> "fuzzy"]

\* Strategy 2 of match_drug_to_cum: the ingredient rows appended to all_candidates.
RECURSIVE IngredientCandidates(_, _, _, _, _)
IngredientCandidates(all_candidates, rows, normalized, dosage_value, dosage_unit) ==
    IF rows = <<>> THEN all_candidates
    ELSE IngredientCandidates(
             IF SeenExpediente(all_candidates, rows[1]) THEN all_candidates
             ELSE Append(all_candidates,
                         IngredientCandidate(rows[1], normalized,
                             _calculate_match_score(normalized, rows[1],
                                                    dosage_value, dosage_unit))),
             Tail(rows), normalized, dosage_value, dosage_unit)

DrugMatchResult(record, match_type, confidence, others, normalized, debug) ==
    [record |-> record, match_type |-> match_type, confidence |-> confidence,
     other_matches |-> others, query_normalized |-> normalized,
     debug_info |-> debug]

\* A selection that leaves the match among the other matches.
SelectSortedKeepsTop(all_candidates, normalized, debug_info) ==
    IF all_candidates = <<>>
    THEN DrugMatchResult(None, "none", FZero, <<>>, normalized, debug_info)
    ELSE IF FLess(all_candidates[1].score, MIN_CONFIDENCE)
    THEN DrugMatchResult(None, "none", all_candidates[1].score,
                         Records(Slice(all_candidates, 0, 5)),
                         normalized, debug_info)
    ELSE DrugMatchResult(Some(all_candidates[1].record),
                         all_candidates[1].match_type,
                         all_candidates[1].score,
                         Records(Slice(all_candidates, 0, 5)),
                         normalized, debug_info)

\* The end of match_drug_to_cum: sort, threshold, selection.
SelectSorted(all_candidates, normalized, debug_info) ==
    IF all_candidates = <<>>
    THEN DrugMatchResult(None, "none", FZero, <<>>, normalized, debug_info)
    ELSE IF FLess(all_candidates[1].score, MIN_CONFIDENCE)
    THEN DrugMatchResult(None, "none", all_candidates[1].score,
                         Records(Slice(all_candidates, 0, 5)),
                         normalized, debug_info)
    ELSE DrugMatchResult(Some(all_candidates[1].record),
                         all_candidates[1].match_type,
                         all_candidates[1].score,
                         Records(Slice(all_candidates, 1, 6)),
                         normalized, debug_info)

SelectMatch(cands, normalized, debug) ==
    SelectSorted(SortByScoreDesc(cands), normalized,
                 DictSet(debug, "total_candidates", Len(cands)))

(***************************************************************************)
(* Inputs of the matcher: medication names are up to MaxWords words joined *)
(* by single spaces; the registry answers with up to MaxResults rows.      *)
(***************************************************************************)
BlankTokens == {""}
DosageTokens == {"5MG", "0,5 g"}
FormTokens == {"gel"}
DrugTokens == {"ASA", "Losar"}
NameTokens == BlankTokens \cup DosageTokens \cup FormTokens \cup DrugTokens

SeqsUpTo(S, n) == UNION {[1..k -> S] : k \in 0..n}

MedicationNames == {Join(ws, " ") : ws \in SeqsUpTo(NameTokens, MaxWords)}
DosageArgs == {"", "5 mg"}

CUMRecord(exp, prod, pa, valor, unidad, forma, estado, desc) ==
    [expedientecum |-> exp, producto |-> prod, principioactivo |-> pa,
     concentracion_valor |-> valor, unidadmedida |-> unidad,
     formafarmaceutica |-> forma, estadoregistro |-> estado,
     descripcioncomercial |-> desc]

\* The rows the registry can answer with.  The first two are two presentations
\* of the same registration (same expedientecum).
Registry ==
    {CUMRecord("E1", "ASA 5", "asa", "5", "mg", "TABLETA", "Vigente", "Caja x 10"),
     CUMRecord("E1", "ASA MAX", "ASA", "0,5", "G", "GEL", "Vencido", "Generico"),
     CUMRecord("E2", "LOSEC", "OME", "", "", "CAPSULA", "Vigente", "")}

\* What one registry query does: it raises, or it returns rows.
QueryOutcomes ==
    {[ok |-> FALSE, rows |-> <<>>, err |-> "timeout"]}
    \cup {[ok |-> TRUE, rows |-> rows, err |-> ""] : rows \in SeqsUpTo(Registry, MaxResults)}

(***************************************************************************)
(* State of the matcher: one call of match_drug_to_cum at a time, advanced *)
(* one registry query per step.                                            *)
(***************************************************************************)
VARIABLES
    m_pc,       \* "idle", "product" (before Strategy 1), "ingredient"
                \* (before Strategy 2) or "done"
    m_args,     \* arguments of the running call
    m_loc,      \* its locals: normalized, dosage_value, dosage_unit,
                \* debug_info, all_candidates
    m_calls,    \* the registry queries issued so far, with what they did
    m_ret       \* the DrugMatchResult once done

\* State of enrich_medication: one call at a time.
VARIABLES
    e_pc,       \* "idle", "match" (inside match_drug_to_cum), "generics"
                \* (before find_generics), "prices" (before the price lookup),
                \* "done" (returned) or "raised" (an exception left the call)
    e_args,     \* arguments of the running call
    e_loc,      \* its locals: match_result, generics
    e_calls,    \* the lookups called so far, with what they did
    e_ret,      \* the EnrichedMedication once done
    e_exc       \* the exception once raised

VARIABLES
    _backend_cache, \* for each module ("orchestrator", "app", "chat") the
                    \* names its _backend_cache holds an instance for
    calls           \* what the running handler did with backends so far:
                    \* get_backend constructions and model calls, in order

\* State of _verify_prescription / _verify_lab: one call at a time.
VARIABLES
    f_pc,       \* "idle", "try" (before a backend of the order), "done"
                \* (returned) or "raised" (an exception left the verifier)
    f_args,     \* task, ingested document and backend_order of the call
    f_idx,      \* position of the for loop in backend_order
    f_errors,   \* errors of _run_with_backend_fallback
    f_ret       \* the _VerificationResult once done

\* State of analyze_prescription / analyze_lab_results of app.py.
VARIABLES
    a_pc,       \* "idle", "try", "build" (extraction accepted, before the
                \* report builder) or "done"
    a_args,     \* handler, image_path and the backend_order resolved
    a_idx,      \* position of the for loop in backend_order
    a_errors,   \* errors of _run_extraction_with_fallback
    a_result,   \* the accepted extraction
    a_ret       \* what the handler returned

\* State of answer_question of the grounded chat.
VARIABLES
    c_pc,       \* "idle", "try" or "done"
    c_args,     \* question, context and the backend_order resolved
    c_idx,      \* position of the for loop in backend_order
    c_errors,   \* errors of the loop
    c_ret       \* the answer returned

\* State of route_document called directly.
VARIABLES
    r_pc,       \* "idle", "done" (returned) or "raised"
    r_args,     \* ingested document and backend of the call
    r_loc,      \* what _classify_with_model ended as, if it ran
    r_ret       \* the decision returned or the exception raised

\* State of analyze_document: one call at a time.
VARIABLES
    o_pc,       \* "idle", "route" (in the classification loop),
                \* "verify_prescription", "wait_prescription" (inside
                \* _verify_prescription), "verify_lab", "wait_lab", "assemble",
                \* "done" (returned) or "raised"
    o_args,     \* file and backend_name of the call
    o_loc,      \* its locals
    o_ret       \* the UnifiedDocumentResult returned or the exception raised

\* State of a direct call of one step of the matcher: the scoring of one row
\* or the selection among collected candidates.
VARIABLES
    h_pc,       \* "idle", "scored" or "selected"
    h_args,     \* arguments of the call
    h_ret       \* its result

mvars == <<m_pc, m_args, m_loc, m_calls, m_ret>>
evars == <<e_pc, e_args, e_loc, e_calls, e_ret, e_exc>>
bvars == <<_backend_cache, calls>>
fvars == <<f_pc, f_args, f_idx, f_errors, f_ret>>
avars == <<a_pc, a_args, a_idx, a_errors, a_result, a_ret>>
cvars == <<c_pc, c_args, c_idx, c_errors, c_ret>>
rvars == <<r_pc, r_args, r_loc, r_ret>>
ovars == <<o_pc, o_args, o_loc, o_ret>>
hvars == <<h_pc, h_args, h_ret>>
vars == <<mvars, evars, bvars, fvars, avars, cvars, rvars, ovars, hvars>>

\* What a step of each component leaves alone.
notMatcher == <<evars, bvars, fvars, avars, cvars, rvars, ovars, hvars>>
notEnrich == <<bvars, fvars, avars, cvars, rvars, ovars, hvars>>
notVerify == <<mvars, evars, avars, cvars, rvars, ovars, hvars>>
notApp == <<mvars, evars, fvars, cvars, rvars, ovars, hvars>>
notChat == <<mvars, evars, fvars, avars, rvars, ovars, hvars>>
notRoute == <<mvars, evars, fvars, avars, cvars, ovars, hvars>>
notOrch == <<mvars, evars, avars, cvars, rvars, hvars>>
notHelpers == <<mvars, evars, bvars, fvars, avars, cvars, rvars, ovars>>

MatchIdle == m_pc = "idle" /\ m_args = None /\ m_loc = None /\ m_calls = <<>> /\ m_ret = None

EnrichIdle ==
    /\ e_pc = "idle" /\ e_args = None /\ e_loc = None
    /\ e_calls = <<>> /\ e_ret = None /\ e_exc = None

VerifyIdle ==
    f_pc = "idle" /\ f_args = None /\ f_idx = 0 /\ f_errors = <<>> /\ f_ret = None

AppIdle ==
    /\ a_pc = "idle" /\ a_args = None /\ a_idx = 0 /\ a_errors = <<>>
    /\ a_result = None /\ a_ret = None

ChatIdle ==
    c_pc = "idle" /\ c_args = None /\ c_idx = 0 /\ c_errors = <<>> /\ c_ret = None

RouteIdle == r_pc = "idle" /\ r_args = None /\ r_loc = None /\ r_ret = None

OrchIdle == o_pc = "idle" /\ o_args = None /\ o_loc = None /\ o_ret = None

HelpersIdle == h_pc = "idle" /\ h_args = None /\ h_ret = None

\* No handler is running.
HandlersIdle ==
    f_pc = "idle" /\ a_pc = "idle" /\ c_pc = "idle" /\ r_pc = "idle" /\ o_pc = "idle"

\* After import: every module-level _backend_cache is empty.
Init ==
    /\ MatchIdle /\ EnrichIdle /\ VerifyIdle /\ AppIdle /\ ChatIdle /\ RouteIdle /\ OrchIdle
    /\ HelpersIdle
    /\ _backend_cache = [m \in {"orchestrator", "app", "chat"} |-> {}]
    /\ calls = <<>>

\* If the name carries no dosage, the dosage of the separate argument is taken.
SeparateDosage(n, dosage) ==
    IF dosage # "" /\ n[2] = ""
    THEN <<n[1], _normalize_drug_name(dosage)[2], _normalize_drug_name(dosage)[3]>>
    ELSE n

DebugInfo(medication_name, n) ==
    [query_original |-> medication_name,
     query_normalized |-> n[1],
     dosage_extracted |-> n[2] \o n[3]]

\* match_drug_to_cum from the second guard on, with
\* n = <<normalized, dosage_value, dosage_unit>>.
MatchNormalized(medication_name, n) ==
    IF n[1] = ""
    THEN /\ m_pc' = "done"
         /\ m_loc' = None
         /\ m_ret' = Some(DrugMatchResult(
                            None, "none", FZero, <<>>, n[1],
                            DictSet(DebugInfo(medication_name, n),
                                    "error", "empty_normalized")))
    ELSE /\ m_pc' = "product"
         /\ m_loc' = Some([normalized |-> n[1],
                           dosage_value |-> n[2],
                           dosage_unit |-> n[3],
                           debug_info |-> DebugInfo(medication_name, n),
                           all_candidates |-> <<>>])
         /\ m_ret' = None

\* match_drug_to_cum up to the first registry query: the two guards and the
\* normalisation.
MatchBegin(medication_name, dosage) ==
    /\ m_pc = "idle"
    /\ m_args' = Some([medication_name |-> medication_name, dosage |-> dosage])
    /\ m_calls' = <<>>
    /\ IF Strip(medication_name) = ""
       THEN /\ m_pc' = "done"
            /\ m_loc' = None
            /\ m_ret' = Some(DrugMatchResult(None, "none", FZero, <<>>, "",
                                             [error |-> "empty_input"]))
       ELSE MatchNormalized(medication_name,
                            SeparateDosage(_normalize_drug_name(medication_name), dosage))

\* A handler that swallows the failure of the product-name query.
ProductSearchUnrecorded(debug_info, err) == debug_info

\* except Exception as e: debug_info["product_search_error"] = str(e)
ProductSearchFailed(debug_info, err) == DictSet(debug_info, "product_search_error", err)

\* except Exception as e: debug_info["ingredient_search_error"] = str(e)
IngredientSearchFailed(debug_info, err) ==
    DictSet(debug_info, "ingredient_search_error", err)

\* Strategy 1: search_by_product_name and the scoring of its rows.
MatchProductSearch ==
    /\ m_pc = "product"
    /\ \E out \in QueryOutcomes :
        LET loc == m_loc[1] IN
        /\ m_calls' = Append(m_calls, [fn |-> "search_by_product_name",
                                       query |-> loc.normalized, ok |-> out.ok,
                                       rows |-> out.rows, err |-> out.err])
        /\ m_loc' = Some(
             IF out.ok
             THEN [loc EXCEPT
                     !.debug_info = DictSet(@, "product_search_count", Len(out.rows)),
                     !.all_candidates = ProductCandidates(out.rows, loc.normalized,
                                            loc.dosage_value, loc.dosage_unit)]
             ELSE [loc EXCEPT
                     !.debug_info = ProductSearchFailed(@, out.err)])
    /\ m_pc' = "ingredient"
    /\ UNCHANGED <<m_args, m_ret>>
    /\ UNCHANGED notMatcher

\* Strategy 2: search_by_active_ingredient, the scoring of its rows, and the
\* selection that ends the call.
MatchIngredientSearch ==
    /\ m_pc = "ingredient"
    /\ \E out \in QueryOutcomes :
        LET loc == m_loc[1]
            cands == IF out.ok
                     THEN IngredientCandidates(loc.all_candidates, out.rows,
                              loc.normalized, loc.dosage_value, loc.dosage_unit)
                     ELSE loc.all_candidates
            debug == IF out.ok
                     THEN DictSet(loc.debug_info, "ingredient_search_count", Len(out.rows))
                     ELSE IngredientSearchFailed(loc.debug_info, out.err)
        IN
        /\ m_calls' = Append(m_calls, [fn |-> "search_by_active_ingredient",
                                       query |-> loc.normalized, ok |-> out.ok,
                                       rows |-> out.rows, err |-> out.err])
        /\ m_ret' = Some(SelectMatch(cands, loc.normalized, debug))
    /\ m_pc' = "done"
    /\ m_loc' = None
    /\ UNCHANGED m_args
    /\ UNCHANGED notMatcher

\* A caller invokes match_drug_to_cum directly.
MatchCall ==
    /\ e_pc = "idle"
    /\ \E name \in MedicationNames, dosage \in DosageArgs : MatchBegin(name, dosage)
    /\ UNCHANGED notMatcher

\* The caller takes the result.
MatchReturn ==
    /\ m_pc = "done"
    /\ e_pc = "idle"
    /\ m_pc' = "idle"
    /\ m_args' = None
    /\ m_loc' = None
    /\ m_calls' = <<>>
    /\ m_ret' = None
    /\ UNCHANGED notMatcher

NextMatch == MatchCall \/ MatchProductSearch \/ MatchIngredientSearch \/ MatchReturn

SpecMatch == Init /\ [][NextMatch]_vars

(***************************************************************************)
(* The scoring and the selection of match_drug_to_cum on their own: the   *)
(* two registry queries of one call return at most 2 * MaxResults rows, so *)
(* the selection among more candidates than other_matches can hold is      *)
(* started here from a collected all_candidates list, and the scoring from *)
(* one query, one row and one extracted dosage.                            *)
(***************************************************************************)
MaxCandidates == 7  \* candidates collected before the selection

\* Scores spread around MIN_CONFIDENCE.
CandidateScores == {<<3, 10>>, <<1, 2>>, <<9, 10>>}

\* The i-th collected row: every row a registration of its own.
CollectedRecord(i) ==
    CUMRecord(<<"R1", "R2", "R3", "R4", "R5", "R6", "R7", "R8">>[i],
              "ASA", "ASA", "5", "mg", "TABLETA", "Vigente", "")

\* Candidates as Strategy 2 appends them, with the given scores.
CollectedCandidates(scores) ==
    [i \in 1..Len(scores) |->
        [record |-> CollectedRecord(i), score |-> scores[i],
         match_type |-> IF FGeq(scores[i], <<17, 20>>)
                        THEN "active_ingredient" ELSE "fuzzy"]]

ScoreQueries == {"ASA", "ASX", "LOSAR"}

\* Dosages as _normalize_drug_name extracts them: a dot for the decimal
\* comma, the unit in upper case, both empty when the name carries none.
ExtractedDosages ==
    {<<"", "">>} \cup ({"5", "0.5"} \X {"MG", "G", "ML"})

\* Rows with and without a concentration, and one with a value but no unit.
ScoreRecords ==
    Registry \cup
    {CUMRecord("E3", "ASX", "ASX", "5", "", "TABLETA", "Vencido", "")}

\* _calculate_match_score(query, record, dosage_value, dosage_unit)
ScoreCall ==
    /\ h_pc = "idle"
    /\ \E query \in ScoreQueries, record \in ScoreRecords, d \in ExtractedDosages :
        /\ h_args' = Some([query |-> query, record |-> record,
                           dosage_value |-> d[1], dosage_unit |-> d[2]])
        /\ h_ret' = Some(_calculate_match_score(query, record, d[1], d[2]))
    /\ h_pc' = "scored"
    /\ UNCHANGED notHelpers

\* The end of match_drug_to_cum from all_candidates.sort on.
SelectCall ==
    /\ h_pc = "idle"
    /\ \E scores \in SeqsUpTo(CandidateScores, MaxCandidates) :
        /\ h_args' = Some([all_candidates |-> CollectedCandidates(scores)])
        /\ h_ret' = Some(SelectMatch(CollectedCandidates(scores), "ASA", EmptyDict))
    /\ h_pc' = "selected"
    /\ UNCHANGED notHelpers

\* The caller takes the result.
HelperReturn ==
    /\ h_pc # "idle"
    /\ h_pc' = "idle"
    /\ h_args' = None
    /\ h_ret' = None
    /\ UNCHANGED notHelpers

NextHelpers == ScoreCall \/ SelectCall \/ HelperReturn

SpecHelpers == Init /\ [][NextHelpers]_vars


(***************************************************************************)
(* src/api/cum.py (find_generics), src/api/sismed.py (the price lookup)    *)
(* and src/pipelines/prescription_enrichment.py                            *)
(***************************************************************************)
\* The characters of the fixtures in code-point order, for str comparison.
CharOrder == " %,-.0123456789ABCDEFGHIJKLMNOPQRSTUVWXYZabcdefghijklmnopqrstuvwxyzÁÉÍÑÓÚáéíñóú"

CharRank == [c \in {Ch(CharOrder, i) : i \in 1..Len(CharOrder)} |->
                CHOOSE i \in 1..Len(CharOrder) : Ch(CharOrder, i) = c]

\* a < b on Python strings
RECURSIVE StrLess(_, _)
StrLess(a, b) ==
    IF b = "" THEN FALSE
    ELSE IF a = "" THEN TRUE
    ELSE IF Head(a) = Head(b) THEN StrLess(Tail(a), Tail(b))
    ELSE CharRank[Head(a)] < CharRank[Head(b)]

\* "GENERICO" in r.descripcioncomercial.upper()
IsGenerico(r) == Contains("GENERICO", Upper(r.descripcioncomercial))

\* key(a) <= key(b) for the key ("GENERICO" not in description, producto)
GenericKeyLeq(a, b) ==
    IF IsGenerico(a) # IsGenerico(b) THEN IsGenerico(a)
    ELSE ~StrLess(b.producto, a.producto)

InsertByKey(front, c) ==
    InsertAt(front, c, Cardinality({i \in 1..Len(front) : GenericKeyLeq(front[i], c)}))

\* results.sort(key=...): stable, generics first, then by product name.
RECURSIVE SortGenerics(_)
SortGenerics(rows) ==
    IF rows = <<>> THEN <<>>
    ELSE InsertByKey(SortGenerics(SubSeq(rows, 1, Len(rows) - 1)), rows[Len(rows)])

\* find_generics once search_by_active_ingredient has returned `rows`.
find_generics(rows, concentration) ==
    SortGenerics(IF concentration # ""
                 THEN SelectSeq(rows, LAMBDA r : r.concentracion_valor = concentration)
                 ELSE rows)

_filter_by_form(generics, form) ==
    IF form = "" THEN generics
    ELSE SelectSeq(generics, LAMBDA g : Upper(g.formafarmaceutica) = Upper(form))

PriceRecord(minimo, maximo, promedio, fecha) ==
    [precio_minimo |-> minimo, precio_maximo |-> maximo,
     precio_promedio |-> promedio, fechacorte |-> fecha]

\* get_price_by_expediente once the request has returned `items`: the items
\* with a zero average price are skipped.
get_price_by_expediente(items) == SelectSeq(items, LAMBDA p : p.precio_promedio # 0)

RECURSIVE SumPromedio(_)
SumPromedio(prices) ==
    IF prices = <<>> THEN 0 ELSE prices[1].precio_promedio + SumPromedio(Tail(prices))

MaxStr(S) == CHOOSE x \in S : \A y \in S : ~StrLess(x, y)

\* The summary of get_price_range with the positive minimum prices `minima`:
\* min() of an empty sequence raises ValueError.
PriceSummary(prices, minima) ==
    IF minima = {} THEN [ok |-> FALSE, err |-> "ValueError", value |-> None]
    ELSE [ok |-> TRUE, err |-> "",
          value |-> Some([min |-> MinOf(minima),
                          max |-> MaxOf({prices[i].precio_maximo : i \in 1..Len(prices)}),
                          avg |-> Frac(SumPromedio(prices), Len(prices)),
                          fecha_datos |-> MaxStr({prices[i].fechacorte : i \in 1..Len(prices)}),
                          num_registros |-> Len(prices)])]

\* get_price_range: what it returns (ok) or raises.
get_price_range(prices) ==
    IF prices = <<>> THEN [ok |-> TRUE, err |-> "", value |-> None]
    ELSE PriceSummary(prices, {prices[i].precio_minimo : i \in
                                  {j \in 1..Len(prices) : prices[j].precio_minimo > 0}})

EnrichedMedication(medication_name, match, generics, prices, price_summary) ==
    [medication_name |-> medication_name, match |-> match, generics |-> generics,
     prices |-> prices, price_summary |-> price_summary]

\* Inputs of enrich_medication.
EnrichNames == {"ASA 5mg", "Losar", "gel"}
EnrichForms == {"", "gel"}

\* What search_by_active_ingredient does inside find_generics.
GenericsOutcomes ==
    {[ok |-> FALSE, rows |-> <<>>, err |-> "timeout"]}
    \cup {[ok |-> TRUE, rows |-> rows, err |-> ""] : rows \in SeqsUpTo(Registry, MaxResults)}

\* The items the price request can return.
PriceItems ==
    {PriceRecord(10, 20, 15, "2019-01"),
     PriceRecord(0, 30, 30, "2019-02"),
     PriceRecord(5, 5, 0, "2019-03")}

\* What the request of get_price_by_expediente does.
PriceOutcomes ==
    {[ok |-> FALSE, items |-> <<>>, err |-> "timeout"]}
    \cup {[ok |-> TRUE, items |-> items, err |-> ""] : items \in SeqsUpTo(PriceItems, MaxPrices)}

\* enrich_medication up to the return of match_drug_to_cum.
EnrichCall ==
    /\ e_pc = "idle"
    /\ \E name \in EnrichNames, form \in EnrichForms :
        /\ MatchBegin(name, "")
        /\ e_args' = Some([medication_name |-> name, dosage |-> "", form |-> form])
    /\ e_pc' = "match"
    /\ UNCHANGED <<e_loc, e_calls, e_ret, e_exc>>
    /\ UNCHANGED notEnrich

\* The matcher has returned: without a record the call returns at once.
EnrichMatched ==
    /\ e_pc = "match"
    /\ m_pc = "done"
    /\ m_pc' = "idle" /\ m_args' = None /\ m_loc' = None /\ m_calls' = <<>> /\ m_ret' = None
    /\ IF m_ret[1].record = None
       THEN /\ e_pc' = "done"
            /\ e_ret' = Some(EnrichedMedication(e_args[1].medication_name, m_ret[1],
                                                <<>>, <<>>, None))
            /\ UNCHANGED e_loc
       ELSE /\ e_pc' = "generics"
            /\ e_loc' = Some([match_result |-> m_ret[1], generics |-> <<>>])
            /\ UNCHANGED e_ret
    /\ UNCHANGED <<e_args, e_calls, e_exc>>
    /\ UNCHANGED notEnrich

\* The return statement of enrich_medication.
EnrichResult(generics, prices, price_summary) ==
    /\ e_pc' = "done"
    /\ e_ret' = Some(EnrichedMedication(e_args[1].medication_name, e_loc[1].match_result,
                                        generics, prices, price_summary))
    /\ e_exc' = None

\* An exception leaves enrich_medication.
EnrichRaise(err) ==
    /\ e_pc' = "raised"
    /\ e_exc' = Some(err)
    /\ e_ret' = None

\* form or record.formafarmaceutica
EffectiveForm(form, record) == IF form # "" THEN form ELSE record.formafarmaceutica

\* enrich_medication after find_generics returned `found`.
EnrichGenerics(record, found) ==
    IF record.expedientecum # ""
    THEN /\ e_pc' = "prices"
         /\ e_loc' = Some([e_loc[1] EXCEPT !.generics =
                              _filter_by_form(found, EffectiveForm(e_args[1].form, record))])
         /\ UNCHANGED <<e_ret, e_exc>>
    ELSE /\ EnrichResult(_filter_by_form(found, EffectiveForm(e_args[1].form, record)),
                         <<>>, None)
         /\ UNCHANGED e_loc

\* enrich_medication after get_price_by_expediente returned `prices`.
EnrichSummary(prices, summary) ==
    IF summary.ok THEN EnrichResult(e_loc[1].generics, prices, summary.value)
    ELSE EnrichRaise(summary.err)

\* find_generics and _filter_by_form; with no expedientecum the call returns.
EnrichFindGenerics ==
    /\ e_pc = "generics"
    /\ \E out \in GenericsOutcomes :
        /\ e_calls' = Append(e_calls, [fn |-> "find_generics", ok |-> out.ok])
        /\ IF ~out.ok
           THEN EnrichRaise(out.err) /\ UNCHANGED e_loc
           ELSE EnrichGenerics(e_loc[1].match_result.record[1],
                               find_generics(out.rows,
                                   e_loc[1].match_result.record[1].concentracion_valor))
    /\ UNCHANGED e_args
    /\ UNCHANGED mvars
    /\ UNCHANGED notEnrich

\* get_price_by_expediente and get_price_range, then the return.
EnrichPrices ==
    /\ e_pc = "prices"
    /\ \E out \in PriceOutcomes :
        /\ e_calls' = Append(e_calls, [fn |-> "get_price_by_expediente", ok |-> out.ok])
        /\ IF ~out.ok
           THEN EnrichRaise(out.err)
           ELSE EnrichSummary(get_price_by_expediente(out.items),
                              get_price_range(get_price_by_expediente(out.items)))
    /\ UNCHANGED <<e_args, e_loc>>
    /\ UNCHANGED mvars
    /\ UNCHANGED notEnrich

\* The caller takes the result or the exception.
EnrichReturn ==
    /\ e_pc \in {"done", "raised"}
    /\ e_pc' = "idle" /\ e_args' = None /\ e_loc' = None
    /\ e_calls' = <<>> /\ e_ret' = None /\ e_exc' = None
    /\ UNCHANGED mvars
    /\ UNCHANGED notEnrich

NextEnrich ==
    \/ EnrichCall \/ MatchProductSearch \/ MatchIngredientSearch \/ EnrichMatched
    \/ EnrichFindGenerics \/ EnrichPrices \/ EnrichReturn

SpecEnrich == Init /\ [][NextEnrich]_vars


(***************************************************************************)
(* Inference backends and the backend fallback of the three modules that   *)
(* run one: src/pipelines/document_orchestrator.py, src/app.py and         *)
(* src/pipelines/document_chat.py.                                         *)
(***************************************************************************)
\* str.lower() of one character
LowerOf ==
    [c \in {Ch(UpperLetters, i) : i \in 1..Len(UpperLetters)} |->
        Ch(LowerLetters, CHOOSE i \in 1..Len(UpperLetters) : Ch(UpperLetters, i) = c)]

LowerCh(c) == IF c \in DOMAIN LowerOf THEN LowerOf[c] ELSE c

RECURSIVE Lower(_)
Lower(s) == IF s = "" THEN "" ELSE LowerCh(Head(s)) \o Lower(Tail(s))

SUPPORTED_BACKENDS == <<"modal", "transformers">>

\* The order for a configured value already stripped and lower-cased.
ResolveConfigured(configured) ==
    IF configured = "auto" THEN <<"modal", "transformers">>
    ELSE IF \E i \in 1..Len(SUPPORTED_BACKENDS) : SUPPORTED_BACKENDS[i] = configured
    THEN <<configured>>
    ELSE <<"modal", "transformers">>

\* _resolve_backend_order(backend_name) of the orchestrator and of the chat
_resolve_backend_order(backend_name) ==
    ResolveConfigured(Lower(Strip(IF backend_name = "" THEN "auto" ELSE backend_name)))

\* _resolve_backend_order() of app.py, with env the value of INFERENCE_BACKEND
\* (None when the variable is not set)
AppResolveBackendOrder(env) ==
    ResolveConfigured(Lower(Strip(IF env = None THEN "auto" ELSE env[1])))

\* The backend names a caller passes or the environment holds.
BackendNames == {"", "auto", " Modal ", "transformers", "gpu"}
BackendEnvs == {None} \cup {Some(n) : n \in BackendNames}

\* The position of the following backend in a backend order.
SameBackend(idx) == idx
NextBackend(idx) == idx + 1

\* What a call ends with: a value returned or an exception raised.
Returned(v) == [raised |-> FALSE, err |-> "", result |-> Some(v)]
Raised(e) == [raised |-> TRUE, err |-> e, result |-> None]

\* JSON values inside a parsed answer: an object with its fields, a string
\* with its text.
JObject(fields) == [type |-> "object", value |-> fields]
JString(s) == [type |-> "string", value |-> [text |-> s]]

DictGet(d, key, default) == IF key \in DOMAIN d THEN d[key] ELSE default

MedicationItem(med) ==
    [nombre_medicamento |-> DictGet(med, "nombre_medicamento", ""),
     dosis |-> DictGet(med, "dosis", ""),
     frecuencia |-> DictGet(med, "frecuencia", ""),
     duracion |-> DictGet(med, "duracion", ""),
     instrucciones |-> DictGet(med, "instrucciones", "")]

LabResultItem(res) ==
    [nombre_prueba |-> DictGet(res, "nombre_prueba", ""),
     valor |-> DictGet(res, "valor", ""),
     unidad |-> DictGet(res, "unidad", ""),
     rango_referencia |-> DictGet(res, "rango_referencia", ""),
     estado |-> DictGet(res, "estado", "")]

PrescriptionExtraction(medicamentos, raw_response, parse_success) ==
    [medicamentos |-> medicamentos, raw_response |-> raw_response,
     parse_success |-> parse_success]

LabResultExtraction(resultados, raw_response, parse_success) ==
    [resultados |-> resultados, raw_response |-> raw_response,
     parse_success |-> parse_success]

\* The entries of a JSON list that are not objects: .get on one of them raises
\* AttributeError, which from_json does not catch.
NonObjects(items) == {i \in 1..Len(items) : items[i].type # "object"}

\* PrescriptionExtraction.from_json on the text json_str that parses to data
\* (a dict; the empty dict when the text holds no JSON object).
PrescriptionFromJson(json_str, data) ==
    IF "medicamentos" \notin DOMAIN data
    THEN Returned(PrescriptionExtraction(<<>>, json_str, FALSE))
    ELSE IF NonObjects(data["medicamentos"]) # {}
    THEN Raised("'str' object has no attribute 'get'")
    ELSE Returned(PrescriptionExtraction(
             [i \in 1..Len(data["medicamentos"]) |->
                 MedicationItem(data["medicamentos"][i].value)],
             json_str, TRUE))

\* LabResultExtraction.from_json, likewise.
LabFromJson(json_str, data) ==
    IF "resultados" \notin DOMAIN data
    THEN Returned(LabResultExtraction(<<>>, json_str, FALSE))
    ELSE IF NonObjects(data["resultados"]) # {}
    THEN Raised("'str' object has no attribute 'get'")
    ELSE Returned(LabResultExtraction(
             [i \in 1..Len(data["resultados"]) |-> LabResultItem(data["resultados"][i].value)],
             json_str, TRUE))

\* result.raw_response = raw
SetRawResponse(r, raw) ==
    IF r.raised THEN r ELSE Returned([r.result[1] EXCEPT !.raw_response = raw])

\* The extraction of one backend for a task ("prescription" or "lab"): the
\* model call, extract_json_from_response, from_json and the raw response.
\* The same statements make up extract_prescription / extract_lab_results of
\* a backend and the _runner of _verify_prescription / _verify_lab.
RunExtraction(task, out) ==
    IF out.raised THEN out
    ELSE SetRawResponse(
             IF task = "prescription"
             THEN PrescriptionFromJson(out.result[1].raw, out.result[1].data)
             ELSE LabFromJson(out.result[1].raw, out.result[1].data),
             out.result[1].raw)

\* The items of an extraction, whichever its class.
ExtractionItems(r) == IF "medicamentos" \in DOMAIN r THEN r.medicamentos ELSE r.resultados

\* isinstance(r, PrescriptionExtraction) / isinstance(r, LabResultExtraction)
IsInstance(task, r) ==
    IF task = "prescription" THEN "medicamentos" \in DOMAIN r ELSE "resultados" \in DOMAIN r

\* The validator of _verify_prescription and of _verify_lab.
VerifyValidator(task, r) ==
    IsInstance(task, r) /\ r.parse_success /\ ExtractionItems(r) # <<>>

\* is_valid_result of analyze_prescription and of analyze_lab_results.
is_valid_result(r) == r.parse_success /\ ExtractionItems(r) # <<>>

\* ---- what the models answer ----
ExtractionKey(task) == IF task = "prescription" THEN "medicamentos" ELSE "resultados"

GoodItem(task) ==
    IF task = "prescription"
    THEN JObject(("nombre_medicamento" :> "ASA") @@ ("dosis" :> "5 mg"))
    ELSE JObject(("nombre_prueba" :> "Glucosa") @@ ("valor" :> "90"))

\* The JSON lists an answer can carry for a task.
AnswerLists(task) ==
    {[i \in 1..n |-> GoodItem(task)] : n \in 0..MaxItems} \cup {<<JString("N/A")>>}

ItemText(item) == IF item.type = "object" THEN "{..}" ELSE "\"" \o item.value.text \o "\""

\* The text of an answer that carries the JSON list items under key.
AnswerText(key, items) ==
    "{\"" \o key \o "\": [" \o Join([i \in 1..Len(items) |-> ItemText(items[i])], ", ") \o "]}"

\* An answer of a model: its text and what json.loads makes of the text
\* extract_json_from_response cuts out of it.
ModelAnswers(task) ==
    {[raw |-> "No puedo leer el documento.", data |-> EmptyDict]}
    \cup {[raw |-> AnswerText(ExtractionKey(task), items),
           data |-> DictSet(EmptyDict, ExtractionKey(task), items)] :
             items \in AnswerLists(task)}

BackendErrors == {"timeout", "HTTP 500"}

\* What one call of a backend for an extraction does.
BackendOutcomes(task) ==
    {Raised(e) : e \in BackendErrors} \cup {Returned(a) : a \in ModelAnswers(task)}

\* What one generate_text call of the chat does.
ChatAnswers ==
    {"", " \n", "Sirve para el dolor.",
     "Sirve para el dolor. Esto NO reemplaza el consejo médico."}
ChatOutcomes == {Raised(e) : e \in BackendErrors} \cup {Returned(a) : a \in ChatAnswers}

\* str(n) of a natural number
DigitChars == "0123456789"
RECURSIVE Str(_)
Str(n) == IF n < 10 THEN Ch(DigitChars, n + 1) ELSE Str(n \div 10) \o Ch(DigitChars, (n % 10) + 1)

\* str(b) of a bool
PyBool(b) == IF b THEN "True" ELSE "False"

\* The entry of `calls` for a get_backend construction.
ConstructEvent(task, backend) ==
    [task |-> task, backend |-> backend, ev |-> "get_backend", method |-> "",
     raised |-> FALSE, err |-> "", parse_success |-> FALSE, items |-> 0, accepted |-> FALSE,
     kind |-> ""]

\* The entry of `calls` for a model call that ended as r (an extraction run).
CallEvent(task, backend, method, r, accepted) ==
    [task |-> task, backend |-> backend, ev |-> "call", method |-> method,
     raised |-> r.raised, err |-> r.err,
     parse_success |-> ~r.raised /\ r.result[1].parse_success,
     items |-> IF r.raised THEN 0 ELSE Len(ExtractionItems(r.result[1])),
     accepted |-> accepted, kind |-> ""]

\* The entry of `calls` for a generate_text call of the chat that ended as
\* out; items is the length of the stripped answer.
ChatEvent(backend, out, accepted) ==
    [task |-> "followup", backend |-> backend, ev |-> "call", method |-> "generate_text",
     raised |-> out.raised, err |-> out.err, parse_success |-> ~out.raised,
     items |-> IF out.raised THEN 0 ELSE Len(Strip(out.result[1])),
     accepted |-> accepted, kind |-> ""]

\* A lookup that constructs an instance at every use.
GetBackendUncached(module, task, backend) == <<ConstructEvent(task, backend)>>

\* _get_backend_instance of a module: get_backend runs on a cache miss only.
GetBackendInstance(module, task, backend) ==
    IF backend \in _backend_cache[module] THEN <<>> ELSE <<ConstructEvent(task, backend)>>

\* _backend_cache[backend_name] = backend
CacheAfter(module, backend) == [_backend_cache EXCEPT ![module] = @ \cup {backend}]

IngestedDocument(file_path, source, extracted_text, quality_score, warnings, media_path) ==
    [file_path |-> file_path, source |-> source, extracted_text |-> extracted_text,
     quality_score |-> quality_score, warnings |-> warnings, media_path |-> media_path]

(***************************************************************************)
(* _verify_prescription / _verify_lab with _run_with_backend_fallback      *)
(* (src/pipelines/document_orchestrator.py).                               *)
(***************************************************************************)
_VerificationResult(extraction, backend_name, error) ==
    [extraction |-> extraction, backend_name |-> backend_name, error |-> error]

\* The entry of errors for a backend that raised or returned an invalid result.
FallbackError(backend_name, r) ==
    IF r.raised THEN backend_name \o ": " \o r.err
    ELSE backend_name \o ": resultado inválido"

\* The message of the RuntimeError of _run_with_backend_fallback.
FallbackMessage(task_label, backend_order, errors) ==
    "Falló " \o task_label \o " con backends " \o Join(backend_order, ", ")
    \o ". Detalle: " \o (IF errors # <<>> THEN Join(errors, " | ") ELSE "sin detalle")

\* The verifier uses the image when there is one, the text otherwise.
VerifyMethod(ingested) == IF ingested.media_path # "" THEN "extract_raw" ELSE "generate_text"

\* The verifier up to the first backend.
VerifyBegin(task, ingested, backend_order) ==
    /\ f_pc = "idle"
    /\ f_pc' = "try"
    /\ f_args' = Some([task |-> task, ingested |-> ingested, backend_order |-> backend_order])
    /\ f_idx' = 1
    /\ f_errors' = <<>>
    /\ f_ret' = None

\* return result, backend_name; then the return of the verifier
VerifyAccept(result, backend_name) ==
    /\ f_pc' = "done"
    /\ f_ret' = Some(_VerificationResult(Some(result), backend_name, ""))
    /\ UNCHANGED <<f_idx, f_errors>>

\* The RuntimeError of the fallback leaves the verifier.
VerifyPropagates(message) ==
    /\ f_pc' = "raised"
    /\ f_ret' = Some(_VerificationResult(None, "", message))

\* The except clause of the verifier turns the RuntimeError of the fallback
\* into a result without extraction.
VerifyCaught(message) ==
    /\ f_pc' = "done"
    /\ f_ret' = Some(_VerificationResult(None, "", message))

\* A backend failed: the loop goes on, or the order is exhausted.
VerifyFailed(task, backend_order, errors) ==
    /\ f_errors' = errors
    /\ IF f_idx < Len(backend_order)
       THEN /\ f_pc' = "try"
            /\ f_idx' = NextBackend(f_idx)
            /\ f_ret' = None
       ELSE /\ f_idx' = f_idx
            /\ VerifyCaught(FallbackMessage("verify_" \o task, backend_order, errors))

\* One pass of the loop of _run_with_backend_fallback with the run result r.
FallbackStep(task, ingested, backend_order, backend_name, r) ==
    /\ calls' = calls \o GetBackendInstance("orchestrator", task, backend_name)
                      \o <<CallEvent(task, backend_name, VerifyMethod(ingested), r,
                                     ~r.raised /\ VerifyValidator(task, r.result[1]))>>
    /\ _backend_cache' = CacheAfter("orchestrator", backend_name)
    /\ IF ~r.raised /\ VerifyValidator(task, r.result[1])
       THEN VerifyAccept(r.result[1], backend_name)
       ELSE VerifyFailed(task, backend_order,
                         Append(f_errors, FallbackError(backend_name, r)))

\* What one call of a backend does for a verifier that analyze_document
\* runs: the failures are represented by one error, the answers by the lists
\* of well-formed items.
OrchOutcomes(task) ==
    {Raised("timeout")}
    \cup {Returned([raw |-> AnswerText(ExtractionKey(task), items),
                    data |-> DictSet(EmptyDict, ExtractionKey(task), items)]) :
             items \in {[i \in 1..n |-> GoodItem(task)] : n \in 0..MaxItems}}

\* The verifier tries the backend the loop is at.
FallbackTry ==
    /\ f_pc = "try"
    /\ \E out \in (IF o_pc = "idle" THEN BackendOutcomes(f_args[1].task)
                   ELSE OrchOutcomes(f_args[1].task)) :
        FallbackStep(f_args[1].task, f_args[1].ingested, f_args[1].backend_order,
                     f_args[1].backend_order[f_idx], RunExtraction(f_args[1].task, out))
    /\ UNCHANGED f_args
    /\ UNCHANGED notVerify

Tasks == {"prescription", "lab"}

\* The documents a verifier is called with: a digital PDF and a photograph.
VerifyDocuments ==
    {IngestedDocument("receta.pdf", "text_pdf", "Receta: tomar 1 tableta", <<19, 20>>,
                      <<>>, ""),
     IngestedDocument("foto.jpg", "image", "", <<7, 10>>, <<>>, "foto.jpg")}

\* The backend orders _resolve_backend_order produces.
BackendOrders == {_resolve_backend_order(n) : n \in BackendNames}

\* A caller invokes _verify_prescription or _verify_lab directly.
VerifyCall ==
    /\ HandlersIdle
    /\ \E task \in Tasks, ingested \in VerifyDocuments, backend_order \in BackendOrders :
        VerifyBegin(task, ingested, backend_order)
    /\ calls' = <<>>
    /\ UNCHANGED _backend_cache
    /\ UNCHANGED notVerify

\* The caller takes the result of the verifier.
VerifyReturn ==
    /\ f_pc \in {"done", "raised"}
    /\ o_pc = "idle"
    /\ f_pc' = "idle" /\ f_args' = None /\ f_idx' = 0 /\ f_errors' = <<>> /\ f_ret' = None
    /\ calls' = <<>>
    /\ UNCHANGED _backend_cache
    /\ UNCHANGED notVerify

(***************************************************************************)
(* analyze_prescription / analyze_lab_results with                         *)
(* _run_extraction_with_fallback (src/app.py).                             *)
(***************************************************************************)
AppTask(handler) == IF handler = "analyze_prescription" THEN "prescription" ELSE "lab"
AppMethod(handler) ==
    IF handler = "analyze_prescription" THEN "extract_prescription" ELSE "extract_lab_results"

\* The entry of errors for a backend that raised or returned an invalid result.
AppError(backend_name, r) ==
    IF r.raised THEN backend_name \o ": " \o r.err
    ELSE backend_name \o ": extracción inválida (parse_success="
         \o PyBool(r.result[1].parse_success) \o ")"

\* A message that names the backends only.
AppFailureMessageNoDetail(backend_order, errors) ==
    "No se logró extraer información con los backends configurados ("
    \o Join(backend_order, ", ") \o ")."

\* The message of the RuntimeError of _run_extraction_with_fallback.
AppFailureMessage(backend_order, errors) ==
    "No se logró extraer información con los backends configurados ("
    \o Join(backend_order, ", ") \o "). Detalle: "
    \o (IF errors # <<>> THEN Join(errors, " | ") ELSE "sin detalles")

\* What a handler returns for a text: analyze_prescription a tuple of four
\* markdown texts, analyze_lab_results one text.
AppTextOnly(handler, text) ==
    IF handler = "analyze_prescription" THEN <<text, "", "", "">> ELSE text

\* The except clause of a handler.
AppErrorOutput(handler, message) ==
    AppTextOnly(handler,
                IF handler = "analyze_prescription"
                THEN "Error al analizar la receta: " \o message
                ELSE "Error al analizar los resultados: " \o message)

\* The answer of a handler called without an image.
AppNoImage(handler) ==
    AppTextOnly(handler,
                IF handler = "analyze_prescription"
                THEN "Por favor suba una imagen de su receta."
                ELSE "Por favor suba una imagen de sus resultados de laboratorio.")

\* not image_path
NoImage(image_path) == image_path = None \/ image_path[1] = ""

\* format_medication_card, the heading line
MedicationCard(med, index) == "\n### " \o Str(index) \o ". " \o med.nombre_medicamento \o "\n"

\* format_lab_results_table, one row
LabRow(r) == "| " \o r.nombre_prueba \o " | " \o r.valor \o " | " \o r.unidad \o " |\n"

\* What happens inside a report builder: something raises (a lookup of
\* enrich_medication, which lets the exception through; the formatting of a
\* lab value), or the generics and prices sections come out as found.
BuildOutcomes ==
    {Raised("timeout"),
     Returned([generics_markdown |-> "No se encontraron genéricos.",
               prices_markdown |-> "No se encontraron precios de referencia."]),
     Returned([generics_markdown |-> "### ASA\n**Alternativas para ASA:**\n\n",
               prices_markdown |-> "### ASA\n**Precio referencia:**\n"])}

\* build_prescription_output for lookups that ended as built
build_prescription_output(extraction, built) ==
    IF extraction.medicamentos = <<>>
    THEN Returned([medications_markdown |->
                      "No se pudieron extraer medicamentos de esta imagen. "
                      \o "Asegúrese de que la imagen sea clara y legible.",
                   generics_markdown |-> "", prices_markdown |-> "",
                   explanations_markdown |-> ""])
    ELSE IF built.raised THEN built
    ELSE Returned([medications_markdown |->
                      "## Medicamentos Encontrados (" \o Str(Len(extraction.medicamentos))
                      \o ")\n\n"
                      \o Join([i \in 1..Len(extraction.medicamentos) |->
                                  MedicationCard(extraction.medicamentos[i], i)], ""),
                   generics_markdown |-> built.result[1].generics_markdown,
                   prices_markdown |-> built.result[1].prices_markdown,
                   explanations_markdown |-> "No se pudieron generar explicaciones."])

\* build_lab_results_output; built says whether the formatting raised
build_lab_results_output(extraction, built) ==
    IF extraction.resultados = <<>> THEN Returned("No se encontraron resultados.")
    ELSE IF built.raised THEN built
    ELSE Returned(
        "## Resultados de Laboratorio (" \o Str(Len(extraction.resultados)) \o " pruebas)\n\n"
        \o Join([i \in 1..Len(extraction.resultados) |-> LabRow(extraction.resultados[i])], ""))

\* analyze_prescription after the extraction was accepted.
PrescriptionOutput(result, output) ==
    IF ~result.parse_success \/ result.medicamentos = <<>>
    THEN AppTextOnly("analyze_prescription",
                     "No se pudieron extraer medicamentos de esta imagen. "
                     \o "Asegúrese de que la imagen sea clara y legible.")
    ELSE IF output.raised THEN AppErrorOutput("analyze_prescription", output.err)
    ELSE <<output.result[1].medications_markdown, output.result[1].generics_markdown,
           output.result[1].prices_markdown, output.result[1].explanations_markdown>>

\* analyze_lab_results after the extraction was accepted.
LabOutput(result, output) ==
    IF ~result.parse_success \/ result.resultados = <<>>
    THEN "No se pudieron extraer resultados de esta imagen. "
         \o "Asegúrese de que la imagen sea clara y legible."
    ELSE IF output.raised THEN AppErrorOutput("analyze_lab_results", output.err)
    ELSE output.result[1]

\* A handler of app.py is called; without an image it answers at once.
AppCall ==
    /\ HandlersIdle
    /\ \E handler \in {"analyze_prescription", "analyze_lab_results"},
          image_path \in {None, Some(""), Some("receta.jpg")}, env \in BackendEnvs :
        IF NoImage(image_path)
        THEN /\ a_pc' = "done"
             /\ a_args' = Some([handler |-> handler, image_path |-> image_path,
                                backend_order |-> <<>>])
             /\ a_ret' = Some(AppNoImage(handler))
        ELSE /\ a_pc' = "try"
             /\ a_args' = Some([handler |-> handler, image_path |-> image_path,
                                backend_order |-> AppResolveBackendOrder(env)])
             /\ a_ret' = None
    /\ a_idx' = 1
    /\ a_errors' = <<>>
    /\ a_result' = None
    /\ calls' = <<>>
    /\ UNCHANGED _backend_cache
    /\ UNCHANGED notApp

\* A backend failed: the loop goes on, or the order is exhausted and the
\* RuntimeError is caught by the handler.
AppFailed(handler, backend_order, errors) ==
    /\ a_errors' = errors
    /\ a_result' = None
    /\ IF a_idx < Len(backend_order)
       THEN /\ a_pc' = "try"
            /\ a_idx' = NextBackend(a_idx)
            /\ a_ret' = None
       ELSE /\ a_pc' = "done"
            /\ a_idx' = a_idx
            /\ a_ret' = Some(AppErrorOutput(handler, AppFailureMessage(backend_order, errors)))

\* One pass of the loop of _run_extraction_with_fallback with the run result r.
AppStep(handler, backend_order, backend_name, r) ==
    /\ calls' = calls \o GetBackendInstance("app", AppTask(handler), backend_name)
                      \o <<CallEvent(AppTask(handler), backend_name, AppMethod(handler), r,
                                     ~r.raised /\ is_valid_result(r.result[1]))>>
    /\ _backend_cache' = CacheAfter("app", backend_name)
    /\ IF ~r.raised /\ is_valid_result(r.result[1])
       THEN /\ a_pc' = "build"
            /\ a_result' = Some(r.result[1])
            /\ UNCHANGED <<a_idx, a_errors, a_ret>>
       ELSE AppFailed(handler, backend_order, Append(a_errors, AppError(backend_name, r)))

\* The handler tries the backend the loop is at.
AppTry ==
    /\ a_pc = "try"
    /\ \E out \in BackendOutcomes(AppTask(a_args[1].handler)) :
        AppStep(a_args[1].handler, a_args[1].backend_order,
                a_args[1].backend_order[a_idx],
                RunExtraction(AppTask(a_args[1].handler), out))
    /\ UNCHANGED a_args
    /\ UNCHANGED notApp

\* The handler builds the report of the accepted extraction and returns.
AppBuild ==
    /\ a_pc = "build"
    /\ \E built \in BuildOutcomes :
        a_ret' = Some(IF a_args[1].handler = "analyze_prescription"
                      THEN PrescriptionOutput(a_result[1],
                               build_prescription_output(a_result[1], built))
                      ELSE LabOutput(a_result[1],
                               build_lab_results_output(a_result[1], built)))
    /\ a_pc' = "done"
    /\ UNCHANGED <<a_args, a_idx, a_errors, a_result>>
    /\ UNCHANGED bvars
    /\ UNCHANGED notApp

\* The caller takes what the handler returned.
AppReturn ==
    /\ a_pc = "done"
    /\ a_pc' = "idle" /\ a_args' = None /\ a_idx' = 0 /\ a_errors' = <<>>
    /\ a_result' = None /\ a_ret' = None
    /\ calls' = <<>>
    /\ UNCHANGED _backend_cache
    /\ UNCHANGED notApp

(***************************************************************************)
(* answer_question (src/pipelines/document_chat.py).                       *)
(***************************************************************************)
UNKNOWN_RESPONSE ==
    "No se puede confirmar con la información disponible. "
    \o "Esta herramienta es educativa y no reemplaza el consejo médico."
NEEDS_CONTEXT_RESPONSE ==
    "Primero analice un documento para habilitar preguntas de seguimiento. "
    \o "Esta herramienta es educativa y no reemplaza el consejo médico."
REFUSAL_RESPONSE ==
    "No puedo diagnosticar ni indicar cambios de tratamiento o dosis. "
    \o "Consulte a su médico tratante. "
    \o "Esta herramienta es educativa y no reemplaza el consejo médico."

blocked_phrases ==
    {"diagnost", "diagnosis", "cambiar dosis", "subir dosis", "bajar dosis", "suspender",
     "reemplazar medicamento", "que tratamiento"}

\* A check that lets every question through to the model.
NeverRefuses(question) == FALSE

_needs_medical_refusal(question) ==
    \E token \in blocked_phrases : Contains(token, Lower(question))

\* The answer of a backend as it came.
RawAnswer(raw) == raw

\* The answer of a backend with the disclaimer it may lack.
WithDisclaimer(raw) ==
    IF ~Contains("no reemplaza el consejo médico", Lower(raw))
    THEN raw \o "\n\nEsta herramienta es educativa y no reemplaza el consejo médico."
    ELSE raw

DocumentChatContext(document_kind, report_markdown, extracted_text) ==
    [document_kind |-> document_kind, report_markdown |-> report_markdown,
     extracted_text |-> extracted_text]

Questions == {"", " \n", "Para que sirve?", "Puedo SUSPENDER la pastilla?"}
ChatContexts ==
    {None, Some(DocumentChatContext("prescription", "## Medicamentos Encontrados (1)", ""))}

\* answer_question up to the first backend: the three guards.
AnswerBegin(question, context, backend_name) ==
    /\ c_args' = Some([question |-> question, context |-> context,
                       backend_name |-> backend_name,
                       backend_order |->
                           IF context = None \/ Strip(question) = ""
                              \/ _needs_medical_refusal(Strip(question))
                           THEN <<>> ELSE _resolve_backend_order(backend_name)])
    /\ c_idx' = 1
    /\ c_errors' = <<>>
    /\ IF context = None THEN c_pc' = "done" /\ c_ret' = Some(NEEDS_CONTEXT_RESPONSE)
       ELSE IF Strip(question) = "" THEN c_pc' = "done" /\ c_ret' = Some(UNKNOWN_RESPONSE)
       ELSE IF _needs_medical_refusal(Strip(question))
       THEN c_pc' = "done" /\ c_ret' = Some(REFUSAL_RESPONSE)
       ELSE c_pc' = "try" /\ c_ret' = None

ChatCall ==
    /\ HandlersIdle
    /\ \E question \in Questions, context \in ChatContexts, backend_name \in BackendNames :
        AnswerBegin(question, context, backend_name)
    /\ calls' = <<>>
    /\ UNCHANGED _backend_cache
    /\ UNCHANGED notChat

\* The entry of errors for a backend that raised or answered nothing.
ChatError(candidate, out) ==
    IF out.raised THEN candidate \o ": " \o out.err ELSE candidate \o ": respuesta vacía"

\* A loop that gives up after the first backend that failed.
ChatFailedOnce(backend_order, errors) ==
    /\ c_errors' = errors
    /\ c_pc' = "done"
    /\ c_idx' = c_idx
    /\ c_ret' = Some(UNKNOWN_RESPONSE)

\* A backend failed: the loop goes on, or the order is exhausted.
ChatFailed(backend_order, errors) ==
    /\ c_errors' = errors
    /\ IF c_idx < Len(backend_order)
       THEN /\ c_pc' = "try"
            /\ c_idx' = NextBackend(c_idx)
            /\ c_ret' = None
       ELSE /\ c_pc' = "done"
            /\ c_idx' = c_idx
            /\ c_ret' = Some(UNKNOWN_RESPONSE)

\* One pass of the loop of answer_question with the outcome of generate_text.
ChatStep(backend_order, candidate, out) ==
    /\ calls' = calls \o GetBackendInstance("chat", "followup", candidate)
                      \o <<ChatEvent(candidate, out,
                                     ~out.raised /\ Strip(out.result[1]) # "")>>
    /\ _backend_cache' = CacheAfter("chat", candidate)
    /\ IF ~out.raised /\ Strip(out.result[1]) # ""
       THEN /\ c_pc' = "done"
            /\ c_ret' = Some(WithDisclaimer(Strip(out.result[1])))
            /\ UNCHANGED <<c_idx, c_errors>>
       ELSE ChatFailed(backend_order, Append(c_errors, ChatError(candidate, out)))

\* answer_question tries the backend the loop is at.
ChatTry ==
    /\ c_pc = "try"
    /\ \E out \in ChatOutcomes :
        ChatStep(c_args[1].backend_order, c_args[1].backend_order[c_idx], out)
    /\ UNCHANGED c_args
    /\ UNCHANGED notChat

\* The caller takes the answer.
ChatReturn ==
    /\ c_pc = "done"
    /\ c_pc' = "idle" /\ c_args' = None /\ c_idx' = 0 /\ c_errors' = <<>> /\ c_ret' = None
    /\ calls' = <<>>
    /\ UNCHANGED _backend_cache
    /\ UNCHANGED notChat

NextBackends ==
    \/ VerifyCall \/ FallbackTry \/ VerifyReturn
    \/ AppCall \/ AppTry \/ AppBuild \/ AppReturn
    \/ ChatCall \/ ChatTry \/ ChatReturn

SpecBackends == Init /\ [][NextBackends]_vars

(***************************************************************************)
(* src/io/document_ingestion.py                                            *)
(***************************************************************************)
IMAGE_EXTENSIONS == {".jpg", ".jpeg", ".png"}
PDF_EXTENSION == ".pdf"

\* Position of the last "." of a path (0 if none).
RECURSIVE LastDot(_, _)
LastDot(path, i) == IF i = 0 \/ Ch(path, i) = "." THEN i ELSE LastDot(path, i - 1)

\* Path(file_path).suffix
Suffix(path) ==
    IF LastDot(path, Len(path)) <= 1 THEN ""
    ELSE SubSeq(path, LastDot(path, Len(path)), Len(path))

\* The stripped texts of the pages that hold text.
RECURSIVE PageTexts(_)
PageTexts(pages) ==
    IF pages = <<>> THEN <<>>
    ELSE IF Strip(Head(pages)) # "" THEN <<Strip(Head(pages))>> \o PageTexts(Tail(pages))
    ELSE PageTexts(Tail(pages))

_extract_pdf_text(pages) == Strip(Join(PageTexts(pages), "\n\n"))

\* The PDF branch of ingest_document; reader is what PdfReader and
\* extract_text did: the page texts, or an exception.
IngestPdf(path, reader) ==
    IF reader.raised
    THEN IngestedDocument(path, "pdf_no_text", "", FZero,
             <<"No se pudo extraer texto del PDF. Si es escaneado, "
               \o "conviértalo a imagen y vuelva a intentarlo.">>, "")
    ELSE IF _extract_pdf_text(reader.result[1]) # ""
    THEN IngestedDocument(path, "text_pdf", _extract_pdf_text(reader.result[1]),
                          <<19, 20>>, <<>>, "")
    ELSE IngestedDocument(path, "pdf_no_text", "", FZero,
             <<"El PDF no tiene texto digital extraíble. "
               \o "En esta versión no se soporta OCR de PDF escaneado.">>, "")

\* ingest_document on a file of the file system: its path, whether it
\* exists, and what reading it as a PDF does.
ingest_document(file) ==
    IF ~file.exists THEN Raised("Document not found: " \o file.path)
    ELSE IF Lower(Suffix(file.path)) \in IMAGE_EXTENSIONS
    THEN Returned(IngestedDocument(file.path, "image", "", <<7, 10>>, <<>>, file.path))
    ELSE IF Lower(Suffix(file.path)) = PDF_EXTENSION
    THEN Returned(IngestPdf(file.path, file.reader))
    ELSE Returned(IngestedDocument(file.path, "unsupported", "", FZero,
             <<"Formato no soportado. Use PDF con texto o imagen JPG/JPEG/PNG.">>, ""))

\* ---- the files of the model ----
File(path, exists, reader) == [path |-> path, exists |-> exists, reader |-> reader]

Files ==
    {File("falta.pdf", FALSE, Returned(<<>>)),
     File("nota.txt", TRUE, Returned(<<>>)),
     File("foto.JPG", TRUE, Returned(<<>>)),
     File("escaneo.pdf", TRUE, Returned(<<"", " \n">>)),
     File("roto.pdf", TRUE, Raised("EOF marker not found")),
     File("receta.pdf", TRUE, Returned(<<" Fórmula médica: 1 tableta\ncada 8 horas ">>)),
     File("lab.pdf", TRUE, Returned(<<"Glucosa 90 mg", "", "normal">>)),
     File("dosis.pdf", TRUE, Returned(<<"Dosis normal">>))}

\* Documents whose keywords weigh the same for a prescription and for a lab
\* report: 1.0 against 1.0, and 2.0 + 1.0 + 0.6 against 2.0 + 0.8 + 0.8.
TiedFiles ==
    {File("rango.pdf", TRUE, Returned(<<"Dosis en rango">>)),
     File("mixto.pdf", TRUE, Returned(<<"Receta: dosis 5 mg", "Laboratorio: normal, alto">>))}

(***************************************************************************)
(* src/pipelines/document_router.py                                        *)
(***************************************************************************)
FSub(a, b) == Frac(a[1] * b[2] - b[1] * a[2], a[2] * b[2])
FMul(a, b) == Frac(a[1] * b[1], a[2] * b[2])
FDiv(a, b) == Frac(a[1] * b[2], a[2] * b[1])
\* abs(a - b)
FAbsDiff(a, b) == IF FLess(a, b) THEN FSub(b, a) ELSE FSub(a, b)

\* f"{x:.2f}" of a fraction that is not negative
Hundredths(x) == (200 * x[1] + x[2]) \div (2 * x[2])
Fmt2(x) ==
    Str(Hundredths(x) \div 100) \o "." \o Str((Hundredths(x) % 100) \div 10)
    \o Str(Hundredths(x) % 10)

\* A threshold above every heuristic confidence.
AlwaysFallbackThreshold == <<24, 25>>
ROUTING_FALLBACK_THRESHOLD == <<31, 50>>

(***************************************************************************)
(* The keyword scores are Python floats summed one weight at a time, and   *)
(* the router compares two such sums for equality, so the sums are kept as *)
(* the IEEE-754 doubles they are.  A double close to a number of tenths is *)
(* the pair <<k, e>> that stands for k/10 + e * 2^-54 / 5: every double in *)
(* [0.5, 32) is such a pair.  In the binade [2^b, 2^(b+1)) the doubles are *)
(* 5 * 2^(b+2) of these units apart.                                       *)
(***************************************************************************)
RECURSIVE Pow2(_)
Pow2(n) == IF n = 0 THEN 1 ELSE 2 * Pow2(n - 1)

\* 2^b in tenths, for b >= -1
TenthsOfPow2(b) == IF b = -1 THEN 5 ELSE 10 * Pow2(b)

\* 2^b <= k/10 + e units < 2^(b+1), for an e far below a tenth
InBinade(k, e, b) ==
    /\ k > TenthsOfPow2(b) \/ (k = TenthsOfPow2(b) /\ e >= 0)
    /\ k < 2 * TenthsOfPow2(b) \/ (k = 2 * TenthsOfPow2(b) /\ e < 0)

Binade(k, e) == CHOOSE b \in -1..4 : InBinade(k, e, b)

\* 2^j modulo 5
Pow2Mod5(j) == <<1, 2, 4, 3>>[(j % 4) + 1]

\* The multiple of `spacing` nearest to `residue`, as its factor; halfway the
\* factor that makes the significand even is taken.  The significand below
\* the residue has the parity of c.
NearestFactor(residue, spacing, c) ==
    IF 2 * (residue % spacing) < spacing THEN residue \div spacing
    ELSE IF 2 * (residue % spacing) > spacing THEN (residue \div spacing) + 1
    ELSE IF (c + (residue \div spacing)) % 2 = 0 THEN residue \div spacing
    ELSE (residue \div spacing) + 1

\* k/10 lies c * w units above a double of the binade whose doubles are 5 * w
\* units apart; <<k, e>> is rounded to the nearest of them.
RoundInBinade(k, e, w, c) == <<k, w * (5 * NearestFactor(w * c + e, 5 * w, c) - c)>>

RoundAt(k, e, b) ==
    RoundInBinade(k, e, Pow2(b + 2), (k * Pow2Mod5(51 - b)) % 5)

\* Round to nearest, ties to even.
RoundDouble(k, e) == IF k = 0 /\ e = 0 THEN <<0, 0>> ELSE RoundAt(k, e, Binade(k, e))

\* The float literal of k tenths.
Tenths(k) == RoundDouble(k, 0)

\* a + b of two floats
DAdd(a, b) == RoundDouble(a[1] + b[1], a[2] + b[2])

\* a < b
DLess(a, b) == a[1] < b[1] \/ (a[1] = b[1] /\ a[2] < b[2])

\* The number of tenths a float stands next to, as a fraction.
Decimal(a) == Frac(a[1], 10)

PRESCRIPTION_HINTS ==
    << <<"RECETA", Tenths(20)>>, <<"FORMULA MEDICA", Tenths(20)>>,
       <<"DOSIS", Tenths(10)>>, <<"CADA", Tenths(10)>>, <<"HORAS", Tenths(10)>>,
       <<"TABLETA", Tenths(10)>>, <<"CAPSULA", Tenths(10)>>,
       <<"MEDICAMENTO", Tenths(10)>>, <<"MG", Tenths(6)>>, <<"ML", Tenths(6)>> >>

LAB_HINTS ==
    << <<"LABORATORIO", Tenths(20)>>, <<"RESULTADOS", Tenths(15)>>,
       <<"RANGO", Tenths(10)>>, <<"REFERENCIA", Tenths(10)>>,
       <<"HEMOGLOBINA", Tenths(20)>>, <<"HEMATOCRITO", Tenths(20)>>,
       <<"GLUCOSA", Tenths(15)>>, <<"LEUCOCITOS", Tenths(15)>>,
       <<"NORMAL", Tenths(8)>>, <<"ALTO", Tenths(8)>>, <<"BAJO", Tenths(8)>> >>

_HeuristicScore(kind, confidence, reasons) ==
    [kind |-> kind, confidence |-> confidence, reasons |-> reasons]

\* NFD decomposition with the combining marks dropped, one character
Accented == "áéíóúñÁÉÍÓÚÑ"
Unaccented == "aeiounAEIOUN"
FoldCh(c) ==
    IF \E i \in 1..Len(Accented) : Ch(Accented, i) = c
    THEN Ch(Unaccented, CHOOSE i \in 1..Len(Accented) : Ch(Accented, i) = c)
    ELSE c

RECURSIVE FoldAccents(_)
FoldAccents(s) == IF s = "" THEN "" ELSE FoldCh(Head(s)) \o FoldAccents(Tail(s))

_normalize_text(text) == Strip(CollapseWs(Upper(FoldAccents(text)), 1))

\* The hints whose token is in the text, in the order of the dict.
HintHits(text, hints) == SelectSeq(hints, LAMBDA h : Contains(h[1], text))

\* score += weight, hit after hit
RECURSIVE HintScoreFrom(_, _)
HintScoreFrom(score, hits) ==
    IF hits = <<>> THEN score
    ELSE HintScoreFrom(DAdd(score, Head(hits)[2]), Tail(hits))

HintScore(hits) == HintScoreFrom(Tenths(0), hits)

HintTokens(hits) == [i \in 1..Len(hits) |-> hits[i][1]]

_score_hints(text, hints) == <<HintScore(HintHits(text, hints)), HintTokens(HintHits(text, hints))>>

\* min(0.95, 0.45 + 0.55 * margin + 0.1 * min(best, 4.0) / 4.0)
HeuristicConfidence(p, l) ==
    FMin(<<19, 20>>,
         FAdd(FAdd(<<9, 20>>, FMul(<<11, 20>>, FDiv(FAbsDiff(p, l), FAdd(p, l)))),
              FDiv(FMul(<<1, 10>>, FMin(FMax(p, l), <<4, 1>>)), <<4, 1>>)))

\* ', '.join(hits[:6]) or 'ninguna'
HitWords(tokens) ==
    IF tokens = <<>> THEN "ninguna" ELSE Join(SubSeq(tokens, 1, MinOf({6, Len(tokens)})), ", ")

\* The branch of _heuristic_route for two scores that differ.  The confidence
\* is computed on the tenths the scores stand next to: the float the code
\* computes is within 1e-15 of it, on the same side of every number the code
\* compares a confidence with.
HeuristicPick(kind, p, l) ==
    _HeuristicScore(
        kind,
        HeuristicConfidence(Decimal(p[1]), Decimal(l[1])),
        <<"Puntaje receta=" \o Fmt2(Decimal(p[1])) \o "; lab="
          \o Fmt2(Decimal(l[1])) \o ".",
          IF kind = "prescription"
          THEN "Palabras receta: " \o HitWords(p[2]) \o "."
          ELSE "Palabras lab: " \o HitWords(l[2]) \o ".">>)

\* _heuristic_route from the two scores p = <<score, hits>> and l.
HeuristicFromScores(p, l) ==
    IF ~DLess(Tenths(0), DAdd(p[1], l[1]))
    THEN _HeuristicScore("unknown", FZero,
             <<"No se detectaron palabras clave fuertes para receta o laboratorio.">>)
    ELSE IF p[1] = l[1]
    THEN _HeuristicScore("unknown", <<2, 5>>,
             <<"Puntaje empatado receta=" \o Fmt2(Decimal(p[1])) \o ", lab="
               \o Fmt2(Decimal(l[1])) \o ".">>)
    ELSE HeuristicPick(IF DLess(l[1], p[1]) THEN "prescription" ELSE "lab", p, l)

\* _heuristic_route from the normalized text.
HeuristicFromText(text) ==
    IF text = ""
    THEN _HeuristicScore("unknown", FZero,
             <<"Sin texto extraído; se requiere clasificación con modelo.">>)
    ELSE HeuristicFromScores(_score_hints(text, PRESCRIPTION_HINTS),
                             _score_hints(text, LAB_HINTS))

_heuristic_route(ingested) ==
    IF ingested.source \in {"unsupported", "pdf_no_text"}
    THEN _HeuristicScore("unknown", FZero,
             <<"No hay evidencia textual utilizable para ruteo heurístico.">>)
    ELSE HeuristicFromText(_normalize_text(ingested.extracted_text))

RouteDecision(kind, confidence, method, reasons, raw_response) ==
    [kind |-> kind, confidence |-> confidence, method |-> method, reasons |-> reasons,
     raw_response |-> raw_response]

\* JSON values of a classification answer.
JNumber(x) == [type |-> "number", value |-> [num |-> x]]
JArray == [type |-> "array", value |-> EmptyDict]

\* float(parsed.get("confidence", 0.0)) with its except clause, clamped to
\* [0, 1]
ParsedConfidence(parsed) ==
    IF "confidence" \notin DOMAIN parsed THEN FZero
    ELSE IF parsed["confidence"].type # "number" THEN FZero
    ELSE FMax(FZero, FMin(FOne, parsed["confidence"].value.num))

\* str(parsed.get(key, "")) for the keys that hold a string when present
ParsedStr(parsed, key) == IF key \in DOMAIN parsed THEN parsed[key].value.text ELSE ""

\* str(parsed.get("document_type", "")).strip().lower(), coerced to the enum
ParsedKind(parsed) ==
    IF Lower(Strip(ParsedStr(parsed, "document_type"))) \in {"prescription", "lab", "unknown"}
    THEN Lower(Strip(ParsedStr(parsed, "document_type")))
    ELSE "unknown"

ParsedReason(parsed) ==
    IF Strip(ParsedStr(parsed, "reason")) # "" THEN Strip(ParsedStr(parsed, "reason"))
    ELSE "Clasificación sin razón explícita."

\* _classify_with_model with the outcome of the model call: the exception of
\* the call becomes a decision; .get on a JSON value that is no object raises.
_classify_with_model(out) ==
    IF out.raised
    THEN Returned(RouteDecision("unknown", FZero, "model_fallback_error",
                      <<"Error en clasificación con modelo: " \o out.err>>, ""))
    ELSE IF out.result[1].parsed.type # "object"
    THEN Raised("'list' object has no attribute 'get'")
    ELSE Returned(RouteDecision(ParsedKind(out.result[1].parsed.value),
                      ParsedConfidence(out.result[1].parsed.value), "model_fallback",
                      <<ParsedReason(out.result[1].parsed.value)>>, out.result[1].raw))

HeuristicDecision(heuristic) ==
    RouteDecision(heuristic.kind, heuristic.confidence, "heuristic", heuristic.reasons, "")

\* route_document without a backend below the threshold
NoBackendDecision(decision) ==
    [decision EXCEPT !.reasons =
        Append(@, "Sin backend disponible para fallback de clasificación.")]

\* route_document returns the decision of the model
FallbackAccepted(heuristic, fallback) ==
    [fallback EXCEPT !.reasons =
        <<"Fallback activado por baja confianza heurística ("
          \o Fmt2(heuristic.confidence) \o " < " \o Fmt2(ROUTING_FALLBACK_THRESHOLD)
          \o ").">> \o @]

\* The decision of the model is handed on as it is.
ReturnFallback(decision, fallback) == fallback

\* route_document after a fallback of kind "unknown": the heuristic decision
\* with one more reason and the raw response of the model.
KeepHeuristic(decision, fallback) ==
    [decision EXCEPT
        !.reasons = Append(@, "Fallback de clasificación no logró una ruta confiable; "
                              \o "se mantiene ruta desconocida."),
        !.raw_response = IF fallback.raw_response # "" THEN fallback.raw_response ELSE @]

\* route_document after _classify_with_model ended as classified.
RouteAfterClassify(heuristic, classified) ==
    IF classified.raised THEN classified
    ELSE IF classified.result[1].kind # "unknown"
    THEN Returned(FallbackAccepted(heuristic, classified.result[1]))
    ELSE Returned(KeepHeuristic(HeuristicDecision(heuristic), classified.result[1]))

\* route_document calls the model: the confidence is below the threshold and
\* a backend is supplied.
RouteInvokes(heuristic, has_backend) ==
    FLess(heuristic.confidence, ROUTING_FALLBACK_THRESHOLD) /\ has_backend

RouteWithHeuristic(heuristic, has_backend, out) ==
    IF FGeq(heuristic.confidence, ROUTING_FALLBACK_THRESHOLD)
    THEN Returned(HeuristicDecision(heuristic))
    ELSE IF ~has_backend THEN Returned(NoBackendDecision(HeuristicDecision(heuristic)))
    ELSE RouteAfterClassify(heuristic, _classify_with_model(out))

\* route_document(ingested, backend), with out the outcome of the model call
\* if one is made
route_document(ingested, has_backend, out) ==
    RouteWithHeuristic(_heuristic_route(ingested), has_backend, out)

\* ---- what the models answer to the classification prompt ----
ClassifyAnswer(raw, parsed) == [raw |-> raw, parsed |-> parsed]

ClassifyOutcomes ==
    {Raised("timeout"),
     Returned(ClassifyAnswer("", JObject(EmptyDict))),
     Returned(ClassifyAnswer(
         "{\"document_type\": \" Prescription\", \"confidence\": 0.9, \"reason\": \"Dosis\"}",
         JObject(("document_type" :> JString(" Prescription"))
                 @@ ("confidence" :> JNumber(<<9, 10>>))
                 @@ ("reason" :> JString("Dosis"))))),
     Returned(ClassifyAnswer("{\"document_type\": \"lab\", \"confidence\": \"alta\"}",
         JObject(("document_type" :> JString("lab")) @@ ("confidence" :> JString("alta"))))),
     Returned(ClassifyAnswer("{\"document_type\": \"unknown\", \"confidence\": 0.3}",
         JObject(("document_type" :> JString("unknown"))
                 @@ ("confidence" :> JNumber(<<3, 10>>))))),
     Returned(ClassifyAnswer("{\"document_type\": \"factura\", \"confidence\": 1.7}",
         JObject(("document_type" :> JString("factura"))
                 @@ ("confidence" :> JNumber(<<17, 10>>))))),
     Returned(ClassifyAnswer("[]", JArray))}

(***************************************************************************)
(* route_document called directly (src/pipelines/document_router.py).      *)
(***************************************************************************)
\* The entry of `calls` for a function of the pipeline that was called.
StageEvent(name) ==
    [task |-> name, backend |-> "", ev |-> "stage", method |-> "", raised |-> FALSE,
     err |-> "", parse_success |-> FALSE, items |-> 0, accepted |-> FALSE, kind |-> ""]

\* The entry of `calls` for the model call of _classify_with_model that ended
\* as out and was classified as classified.
RouteEvent(backend, method, out, classified) ==
    [task |-> "route", backend |-> backend, ev |-> "call", method |-> method,
     raised |-> out.raised, err |-> out.err,
     parse_success |-> ~classified.raised /\ ~out.raised, items |-> 0,
     accepted |-> ~classified.raised /\ classified.result[1].kind # "unknown",
     kind |-> IF classified.raised THEN "" ELSE classified.result[1].kind]

\* The model call route_document makes, if it makes one.
RouteEvents(ingested, backend, has_backend, out) ==
    IF RouteInvokes(_heuristic_route(ingested), has_backend)
    THEN <<RouteEvent(backend, VerifyMethod(ingested), out, _classify_with_model(out))>>
    ELSE <<>>

\* The documents ingestion produces.
Documents == {ingest_document(f).result[1] : f \in {g \in Files \cup TiedFiles : g.exists}}

\* The backend a caller of route_document supplies: none, or an instance.
RouteBackends == {None, Some("modal"), Some("transformers")}

\* A caller invokes route_document.
RouteCall ==
    /\ HandlersIdle
    /\ \E ingested \in Documents, backend \in RouteBackends, out \in ClassifyOutcomes :
        /\ r_args' = Some([ingested |-> ingested, backend |-> backend])
        /\ r_ret' = Some(route_document(ingested, backend # None, out))
        /\ r_loc' = IF RouteInvokes(_heuristic_route(ingested), backend # None)
                    THEN Some(_classify_with_model(out)) ELSE None
        /\ r_pc' = IF route_document(ingested, backend # None, out).raised
                   THEN "raised" ELSE "done"
        /\ calls' = RouteEvents(ingested, IF backend = None THEN "" ELSE backend[1],
                                backend # None, out)
    /\ UNCHANGED _backend_cache
    /\ UNCHANGED notRoute

\* The caller takes the decision or the exception.
RouteReturn ==
    /\ r_pc \in {"done", "raised"}
    /\ r_pc' = "idle" /\ r_args' = None /\ r_loc' = None /\ r_ret' = None
    /\ calls' = <<>>
    /\ UNCHANGED _backend_cache
    /\ UNCHANGED notRoute

(***************************************************************************)
(* analyze_document (src/pipelines/document_orchestrator.py).              *)
(***************************************************************************)
UnifiedDocumentResult(file_path, ingested, route, report_markdown, warnings, uncertainty_notes, parse_success, raw_verification_response, used_backend, prescription, lab, prescription_output, lab_output) ==
    [file_path |-> file_path, evidence_source |-> ingested.source,
     evidence_quality |-> ingested.quality_score, route |-> route,
     report_markdown |-> report_markdown, warnings |-> warnings,
     uncertainty_notes |-> uncertainty_notes, extracted_text |-> ingested.extracted_text,
     parse_success |-> parse_success,
     raw_verification_response |-> raw_verification_response,
     used_backend |-> used_backend, prescription |-> prescription, lab |-> lab,
     prescription_output |-> prescription_output, lab_output |-> lab_output]

\* "- " before every entry
Bullets(entries) == [i \in 1..Len(entries) |-> "- " \o entries[i]]

\* The backquote of the header's code spans. A string of this notation cannot
\* hold that character: the apostrophe, which the header never uses, stands for it.
Backquote == "'"

_render_unified_header(route, source, warnings, uncertainty_notes) ==
    Join(<<"## Reporte Unificado del Documento", "",
           "- **Tipo detectado:** " \o Backquote \o route.kind \o Backquote,
           "- **Confianza de ruteo:** " \o Fmt2(route.confidence),
           "- **Método de ruteo:** " \o route.method,
           "- **Fuente de evidencia:** " \o Backquote \o source \o Backquote>>
         \o (IF route.reasons # <<>>
             THEN <<"- **Razonamiento de ruteo:** " \o Join(route.reasons, " ")>> ELSE <<>>)
         \o (IF warnings # <<>> THEN <<"", "### Avisos">> \o Bullets(warnings) ELSE <<>>)
         \o (IF uncertainty_notes # <<>>
             THEN <<"", "### Incertidumbres">> \o Bullets(uncertainty_notes) ELSE <<>>)
         \o <<"">>,
         "\n")

\* Every source is analysed.
IsNeverRejected(source) == FALSE
\* ingested.source in ("unsupported", "pdf_no_text")
IsRejectedSource(source) == source \in {"unsupported", "pdf_no_text"}

\* The result of analyze_document for a document ingestion could not read.
RejectedResult(file_path, ingested) ==
    UnifiedDocumentResult(file_path, ingested,
        RouteDecision("unknown", FZero, "unavailable", <<>>, ""),
        _render_unified_header(RouteDecision("unknown", FZero, "unavailable", <<>>, ""),
                               ingested.source, ingested.warnings, <<>>)
        \o "No se pudo analizar este documento con la estrategia actual.",
        ingested.warnings, <<>>, FALSE, "", "", None, None, "", "")

\* route.confidence < 0.62, the literal of analyze_document
OrchFallbackThreshold == <<31, 50>>

\* The locals of analyze_document once the first route is known.
OrchLocals(ingested, backend_order, route) ==
    [ingested |-> ingested, warnings |-> ingested.warnings, uncertainty_notes |-> <<>>,
     backend_order |-> backend_order, route_backend_name |-> "", route_errors |-> <<>>,
     route |-> route, idx |-> 1, selected_kind |-> route.kind, selected_backend |-> "",
     prescription_result |-> None, lab_result |-> None, raw_verification_response |-> ""]

\* analyze_document after ingestion for a document that is analysed: the
\* heuristic route, and whether the classification loop is entered.
OrchRouted(ingested, backend_order, route) ==
    /\ o_loc' = Some(OrchLocals(ingested, backend_order, route))
    /\ o_pc' = IF FLess(route.confidence, OrchFallbackThreshold)
               THEN "route" ELSE "verify_prescription"
    /\ o_ret' = None
    /\ calls' = <<StageEvent("route_document")>>

\* analyze_document after ingestion.
OrchIngested(file_path, ingested, backend_order) ==
    IF IsRejectedSource(ingested.source)
    THEN /\ o_pc' = "done"
         /\ o_loc' = None
         /\ o_ret' = Some(Returned(RejectedResult(file_path, ingested)))
         /\ calls' = <<>>
    ELSE OrchRouted(ingested, backend_order,
                    route_document(ingested, FALSE, Raised("")).result[1])

\* The backend names analyze_document is called with: one for each order.
OrchBackendNames == {"auto", "transformers"}

\* analyze_document is called: ingestion, the rejection of what cannot be
\* read, and the heuristic route.
OrchCall ==
    /\ HandlersIdle
    /\ \E file \in Files, backend_name \in OrchBackendNames :
        /\ o_args' = Some([file |-> file, backend_name |-> backend_name])
        /\ IF ingest_document(file).raised
           THEN /\ o_pc' = "raised"
                /\ o_loc' = None
                /\ o_ret' = Some(ingest_document(file))
                /\ calls' = <<>>
           ELSE OrchIngested(file.path, ingest_document(file).result[1],
                             _resolve_backend_order(backend_name))
    /\ UNCHANGED _backend_cache
    /\ UNCHANGED fvars
    /\ UNCHANGED notOrch

\* The statements after the classification loop: the warning about the
\* backends whose route_document raised, and the kind and backend selected.
RouteLoopExit(loc) ==
    [loc EXCEPT
        !.warnings = IF loc.route_errors # <<>>
                     THEN Append(@, "No se pudo clasificar con todos los backends de fallback: "
                                    \o Join(loc.route_errors, " | "))
                     ELSE @,
        !.selected_kind = loc.route.kind,
        !.selected_backend = loc.route_backend_name]

\* The locals after one pass of the classification loop in which
\* route_document ended as result.
RoutePass(loc, backend_candidate, result) ==
    IF result.raised
    THEN [loc EXCEPT !.route_errors = Append(@, backend_candidate \o ": " \o result.err)]
    ELSE [loc EXCEPT !.route_backend_name = backend_candidate, !.route = result.result[1]]

\* The loop ends on a kind other than "unknown" and after the last backend.
RouteLoopEnds(loc, result) ==
    (~result.raised /\ result.result[1].kind # "unknown") \/ loc.idx >= Len(loc.backend_order)

\* One pass of the classification loop of analyze_document.
OrchRouteStep(loc, backend_candidate, result, out) ==
    /\ calls' = calls \o GetBackendInstance("orchestrator", "route", backend_candidate)
                      \o <<StageEvent("route_document")>>
                      \o RouteEvents(loc.ingested, backend_candidate, TRUE, out)
    /\ _backend_cache' = CacheAfter("orchestrator", backend_candidate)
    /\ IF RouteLoopEnds(loc, result)
       THEN /\ o_loc' = Some(RouteLoopExit(RoutePass(loc, backend_candidate, result)))
            /\ o_pc' = "verify_prescription"
       ELSE /\ o_loc' = Some([RoutePass(loc, backend_candidate, result)
                                 EXCEPT !.idx = NextBackend(@)])
            /\ o_pc' = "route"

\* analyze_document classifies with the backend the loop is at.
OrchRouteTry ==
    /\ o_pc = "route"
    /\ \E out \in ClassifyOutcomes :
        OrchRouteStep(o_loc[1], o_loc[1].backend_order[o_loc[1].idx],
                      route_document(o_loc[1].ingested, TRUE, out), out)
    /\ UNCHANGED <<o_args, o_ret>>
    /\ UNCHANGED fvars
    /\ UNCHANGED notOrch

\* selected_kind in ("prescription", "unknown")
RoutesToPrescription(selected_kind) == selected_kind \in {"prescription", "unknown"}

\* Every kind goes to the lab verifier.
RoutesAlwaysToLab(selected_kind) == TRUE

\* selected_kind in ("lab", "unknown")
RoutesToLab(selected_kind) == selected_kind \in {"lab", "unknown"}

\* analyze_document calls _verify_prescription for a route of kind
\* "prescription" or "unknown".
OrchVerifyPrescription ==
    /\ o_pc = "verify_prescription"
    /\ IF RoutesToPrescription(o_loc[1].selected_kind)
       THEN /\ VerifyBegin("prescription", o_loc[1].ingested, o_loc[1].backend_order)
            /\ o_pc' = "wait_prescription"
            /\ calls' = Append(calls, StageEvent("_verify_prescription"))
       ELSE /\ o_pc' = "verify_lab"
            /\ UNCHANGED fvars
            /\ UNCHANGED calls
    /\ UNCHANGED <<o_args, o_loc, o_ret>>
    /\ UNCHANGED _backend_cache
    /\ UNCHANGED notOrch

\* The locals after _verify_prescription returned pres_verification.
PrescriptionVerified(loc, pres_verification) ==
    IF pres_verification.extraction # None
       /\ IsInstance("prescription", pres_verification.extraction[1])
    THEN [loc EXCEPT
            !.prescription_result = pres_verification.extraction,
            !.raw_verification_response = pres_verification.extraction[1].raw_response,
            !.selected_backend = IF pres_verification.backend_name # ""
                                 THEN pres_verification.backend_name ELSE @]
    ELSE loc

\* _verify_prescription has returned.
OrchPrescriptionVerified ==
    /\ o_pc = "wait_prescription"
    /\ f_pc = "done"
    /\ o_loc' = Some(PrescriptionVerified(o_loc[1], f_ret[1]))
    /\ o_pc' = "verify_lab"
    /\ f_pc' = "idle" /\ f_args' = None /\ f_idx' = 0 /\ f_errors' = <<>> /\ f_ret' = None
    /\ UNCHANGED <<o_args, o_ret>>
    /\ UNCHANGED bvars
    /\ UNCHANGED notOrch

\* analyze_document calls _verify_lab for a route of kind "lab" or "unknown".
OrchVerifyLab ==
    /\ o_pc = "verify_lab"
    /\ IF RoutesToLab(o_loc[1].selected_kind)
       THEN /\ VerifyBegin("lab", o_loc[1].ingested, o_loc[1].backend_order)
            /\ o_pc' = "wait_lab"
            /\ calls' = Append(calls, StageEvent("_verify_lab"))
       ELSE /\ o_pc' = "assemble"
            /\ UNCHANGED fvars
            /\ UNCHANGED calls
    /\ UNCHANGED <<o_args, o_loc, o_ret>>
    /\ UNCHANGED _backend_cache
    /\ UNCHANGED notOrch

\* A choice that gives a tie to the lab extraction.
RicherOrEqualExtraction(loc, extraction) ==
    IF Len(extraction.resultados) >= Len(loc.prescription_result[1].medicamentos)
    THEN [loc EXCEPT !.lab_result = Some(extraction), !.prescription_result = None,
                     !.selected_kind = "lab"]
    ELSE [loc EXCEPT !.selected_kind = "prescription"]

\* Both verifiers returned an extraction for a route of kind "unknown": the
\* lab extraction wins with strictly more items.
RicherExtraction(loc, extraction) ==
    IF Len(extraction.resultados) > Len(loc.prescription_result[1].medicamentos)
    THEN [loc EXCEPT !.lab_result = Some(extraction), !.prescription_result = None,
                     !.selected_kind = "lab"]
    ELSE [loc EXCEPT !.selected_kind = "prescription"]

\* The locals after _verify_lab returned a lab extraction.
LabExtracted(loc, lab_verification) ==
    [(IF loc.prescription_result # None /\ loc.selected_kind = "unknown"
      THEN RicherExtraction(loc, lab_verification.extraction[1])
      ELSE [loc EXCEPT !.lab_result = lab_verification.extraction, !.selected_kind = "lab"])
     EXCEPT
        !.raw_verification_response = lab_verification.extraction[1].raw_response,
        !.selected_backend = IF lab_verification.backend_name # ""
                             THEN lab_verification.backend_name ELSE @]

\* Locals that keep the routed kind when the lab verification failed.
LabVerifiedKeepsKind(loc, lab_verification) ==
    IF lab_verification.extraction # None /\ IsInstance("lab", lab_verification.extraction[1])
    THEN LabExtracted(loc, lab_verification)
    ELSE loc

\* The locals after _verify_lab returned lab_verification.
LabVerified(loc, lab_verification) ==
    IF lab_verification.extraction # None /\ IsInstance("lab", lab_verification.extraction[1])
    THEN LabExtracted(loc, lab_verification)
    ELSE IF loc.prescription_result # None /\ loc.selected_kind = "unknown"
    THEN [loc EXCEPT !.selected_kind = "prescription"]
    ELSE loc

\* _verify_lab has returned.
OrchLabVerified ==
    /\ o_pc = "wait_lab"
    /\ f_pc = "done"
    /\ o_loc' = Some(LabVerified(o_loc[1], f_ret[1]))
    /\ o_pc' = "assemble"
    /\ f_pc' = "idle" /\ f_args' = None /\ f_idx' = 0 /\ f_errors' = <<>> /\ f_ret' = None
    /\ UNCHANGED <<o_args, o_ret>>
    /\ UNCHANGED bvars
    /\ UNCHANGED notOrch

\* The report of the prescription branch from what build_prescription_output
\* returned.
PrescriptionReport(pipeline_output) ==
    "### Medicamentos\n\n" \o pipeline_output.medications_markdown
    \o "\n\n### Alternativas Genéricas\n\n" \o pipeline_output.generics_markdown
    \o "\n\n### Precios de Referencia\n\n" \o pipeline_output.prices_markdown
    \o "\n\n### Explicación\n\n" \o pipeline_output.explanations_markdown

\* The extracted medications are not listed.
NoFallbackReport(medicamentos) == ""

\* The report of the prescription branch when the builder raised.
PrescriptionFallbackReport(medicamentos) ==
    "### Medicamentos (sin enriquecimiento)\n\n"
    \o Join([i \in 1..Len(medicamentos) |->
                "- " \o medicamentos[i].nombre_medicamento \o " | dosis: "
                \o medicamentos[i].dosis \o " | frecuencia: " \o medicamentos[i].frecuencia],
            "\n")

\* The report of the lab branch when the builder raised.
LabFallbackReport(resultados) ==
    "### Resultados (sin formateo)\n\n"
    \o Join([i \in 1..Len(resultados) |->
                "- " \o resultados[i].nombre_prueba \o ": " \o resultados[i].valor \o " "
                \o resultados[i].unidad \o " (" \o resultados[i].rango_referencia \o ")"],
            "\n")

\* parse_success of an extraction that was kept
ExtractionParsed(result) == result # None /\ result[1].parse_success /\ ExtractionItems(result[1]) # <<>>

\* The prescription branch of the assembly: <<report, warnings, notes>>.
AssemblePrescription(loc, output) ==
    IF loc.prescription_result = None THEN <<"", <<>>, <<>>>>
    ELSE IF ~ExtractionParsed(loc.prescription_result)
    THEN <<"", <<>>,
           <<"La verificación de receta no logró extraer medicamentos confiables.">>>>
    ELSE IF output.raised
    THEN <<PrescriptionFallbackReport(loc.prescription_result[1].medicamentos),
           <<"No se pudo completar el enriquecimiento CUM/SISMED; "
             \o "se muestran solo datos extraídos.">>,
           <<"Fallo de enriquecimiento: " \o output.err>>>>
    ELSE <<PrescriptionReport(output.result[1]), <<>>, <<>>>>

\* The lab branch of the assembly: <<report, warnings, notes>>.
AssembleLab(loc, output) ==
    IF loc.lab_result = None THEN <<"", <<>>, <<>>>>
    ELSE IF ~ExtractionParsed(loc.lab_result)
    THEN <<"", <<>>,
           <<"La verificación de laboratorio no logró extraer resultados confiables.">>>>
    ELSE IF output.raised
    THEN <<LabFallbackReport(loc.lab_result[1].resultados),
           <<"No se pudo completar el formateo de laboratorio; se muestran datos mínimos.">>,
           <<"Fallo de formateo lab: " \o output.err>>>>
    ELSE <<output.result[1], <<>>, <<>>>>

\* parse_success as the prescription branch alone would leave it.
ParseSuccessOfPrescription(loc) == ExtractionParsed(loc.prescription_result)

\* parse_success as the two branches leave it: the lab branch assigns last.
FinalParseSuccess(loc) ==
    IF loc.lab_result # None THEN ExtractionParsed(loc.lab_result)
    ELSE ExtractionParsed(loc.prescription_result)

\* The UnifiedDocumentResult from the two branches p and l, the warnings and
\* the notes.
AssembledResult(file_path, loc, route, p, l, warnings, uncertainty_notes) ==
    UnifiedDocumentResult(file_path, loc.ingested, route,
        _render_unified_header(route, loc.ingested.source, warnings, uncertainty_notes)
        \o "\n"
        \o (IF p[1] # "" THEN p[1] ELSE IF l[1] # "" THEN l[1]
            ELSE "No hay contenido estructurado para mostrar."),
        warnings, uncertainty_notes, FinalParseSuccess(loc),
        loc.raw_verification_response, loc.selected_backend,
        loc.prescription_result, loc.lab_result, p[1], l[1])

\* The assembly from the two branches p and l.
AssembleBranches(file_path, loc, p, l) ==
    AssembledResult(file_path, loc, [loc.route EXCEPT !.kind = loc.selected_kind], p, l,
        loc.warnings \o p[2] \o l[2]
        \o (IF ~FinalParseSuccess(loc)
            THEN <<"No se logró una extracción estructurada confiable; "
                   \o "revise la calidad del documento.">>
            ELSE <<>>),
        loc.uncertainty_notes \o p[3] \o l[3])

\* The entry of `calls` for a function of the pipeline that ended as out.
StageEnded(name, out) == [StageEvent(name) EXCEPT !.raised = out.raised, !.err = out.err]

\* The report builders analyze_document calls: the one of a kept extraction
\* that parsed.
BuildEvents(loc, built) ==
    (IF ExtractionParsed(loc.prescription_result)
     THEN <<StageEnded("build_prescription_output",
                       build_prescription_output(loc.prescription_result[1], built))>>
     ELSE <<>>)
    \o (IF ExtractionParsed(loc.lab_result)
        THEN <<StageEnded("build_lab_results_output",
                          build_lab_results_output(loc.lab_result[1], built))>>
        ELSE <<>>)

\* analyze_document after the verifiers: route.kind, the reports, the
\* warnings and the result.
OrchAssemble ==
    /\ o_pc = "assemble"
    /\ \E built \in BuildOutcomes :
        /\ o_ret' = Some(Returned(AssembleBranches(o_args[1].file.path, o_loc[1],
                     AssemblePrescription(o_loc[1],
                         IF o_loc[1].prescription_result = None THEN built
                         ELSE build_prescription_output(o_loc[1].prescription_result[1], built)),
                     AssembleLab(o_loc[1],
                         IF o_loc[1].lab_result = None THEN built
                         ELSE build_lab_results_output(o_loc[1].lab_result[1], built)))))
        /\ calls' = calls \o BuildEvents(o_loc[1], built)
    /\ o_pc' = "done"
    /\ UNCHANGED <<o_args, o_loc>>
    /\ UNCHANGED _backend_cache
    /\ UNCHANGED fvars
    /\ UNCHANGED notOrch

\* The caller takes the result or the exception.
OrchReturn ==
    /\ o_pc \in {"done", "raised"}
    /\ o_pc' = "idle" /\ o_args' = None /\ o_loc' = None /\ o_ret' = None
    /\ calls' = <<>>
    /\ UNCHANGED _backend_cache
    /\ UNCHANGED fvars
    /\ UNCHANGED notOrch

NextOrch ==
    \/ RouteCall \/ RouteReturn
    \/ OrchCall \/ OrchRouteTry
    \/ OrchVerifyPrescription \/ FallbackTry \/ OrchPrescriptionVerified
    \/ OrchVerifyLab \/ OrchLabVerified
    \/ OrchAssemble \/ OrchReturn

SpecOrch == Init /\ [][NextOrch]_vars

(***************************************************************************)
(* Properties of the matcher.                                              *)
(***************************************************************************)
MatchRunning == m_args # None
MatchDone == m_pc = "done"
MatchName == m_args[1].medication_name
MatchResult == m_ret[1]

IsBlank(s) == \A i \in 1..Len(s) : Ch(s, i) \in Whitespace

\* The names made only of dosage tokens and form words (and spacing).
DosageFormOnlyNames ==
    {n \in {Join(ws, " ") :
              ws \in SeqsUpTo(BlankTokens \cup DosageTokens \cup FormTokens, MaxWords)} :
        ~IsBlank(n)}

DebugError(r) == IF "error" \in DOMAIN r.debug_info THEN r.debug_info["error"] ELSE ""

\* C1: for a blank medication name, and for a name made only of dosage tokens
\* and form words, match_drug_to_cum issues no registry query and returns
\* match_type "none" with no record; the debug marker is "empty_input" for the
\* blank name and "empty_normalized" for the other, never the other way round.
C1_NoQueryOnEmptyName ==
    MatchRunning =>
        /\ (IsBlank(MatchName) \/ MatchName \in DosageFormOnlyNames) =>
              /\ MatchDone
              /\ m_calls = <<>>
              /\ MatchResult.match_type = "none"
              /\ MatchResult.record = None
        /\ IsBlank(MatchName) => DebugError(MatchResult) = "empty_input"
        /\ MatchName \in DosageFormOnlyNames =>
              DebugError(MatchResult) = "empty_normalized"
        /\ (MatchDone /\ DebugError(MatchResult) = "empty_input") => IsBlank(MatchName)
        /\ (MatchDone /\ DebugError(MatchResult) = "empty_normalized") =>
              ~IsBlank(MatchName)

\* A call on a dosage token followed by a form word has returned.
C1_Witness ==
    /\ MatchDone
    /\ MatchName = "0,5 g gel"
    /\ DebugError(MatchResult) = "empty_normalized"

\* C2: every DrugMatchResult has a record exactly when its match_type is not
\* "none", whatever the two registry queries returned or raised.
C2_RecordIffMatched ==
    MatchDone => (MatchResult.record = None <=> MatchResult.match_type = "none")

\* A weak product-name hit was accepted as the match after the ingredient
\* query raised.
C2_Witness ==
    /\ MatchDone
    /\ MatchResult.record # None
    /\ MatchResult.match_type = "fuzzy"
    /\ Len(m_calls) = 2
    /\ ~m_calls[2].ok

(***************************************************************************)
(* Properties of enrich_medication.                                        *)
(***************************************************************************)
\* A call that matched a registry record has ended, by return or by exception.
EnrichMatchedEnded == e_pc \in {"done", "raised"} /\ e_loc # None

FailedLookups == {i \in 1..Len(e_calls) : ~e_calls[i].ok}

\* The warnings of a result; EnrichedMedication has no such field, which is
\* read here as no warning.
Warnings(r) == IF "warnings" \in DOMAIN r THEN r.warnings ELSE <<>>

\* C3: when a registry record is matched, an exception of the generics lookup
\* or of the price lookup never leaves enrich_medication and never keeps the
\* other lookup from running: the call returns, the failed part is empty
\* (generics [] or prices [] with price_summary None), and the result carries
\* one warning per failed lookup.
C3_LookupsIsolated ==
    EnrichMatchedEnded =>
        /\ e_pc = "done"
        /\ \E i \in 1..Len(e_calls) : e_calls[i].fn = "find_generics"
        /\ e_loc[1].match_result.record[1].expedientecum # "" =>
              \E i \in 1..Len(e_calls) : e_calls[i].fn = "get_price_by_expediente"
        /\ \A i \in FailedLookups :
              /\ e_calls[i].fn = "find_generics" => e_ret[1].generics = <<>>
              /\ e_calls[i].fn = "get_price_by_expediente" =>
                    e_ret[1].prices = <<>> /\ e_ret[1].price_summary = None
        /\ Len(Warnings(e_ret[1])) = Cardinality(FailedLookups)

(***************************************************************************)
(* Properties of the backend fallback.                                     *)
(***************************************************************************)
\* The model calls of the running handler, in the order they were made.
Invocations == SelectSeq(calls, LAMBDA e : e.ev = "call")

\* The backend order of the running verifier, handler or follow-up question.
RunOrder ==
    IF f_pc # "idle" THEN f_args[1].backend_order
    ELSE IF a_pc # "idle" THEN a_args[1].backend_order
    ELSE IF c_pc # "idle" THEN c_args[1].backend_order
    ELSE <<>>

\* The running fallback is before a further backend.
RunTrying == f_pc = "try" \/ a_pc = "try" \/ c_pc = "try"

\* What the backend did is a failure: it raised, its answer did not parse, or
\* it held nothing.
CallFailed(e) == e.raised \/ ~e.parse_success \/ e.items = 0

\* C4: within one fallback run (one extraction, one verification, one
\* follow-up question) the backends are invoked in the configured order, each
\* at most once; a backend is invoked only after every backend before it
\* raised or returned an invalid result, and none is invoked after a result
\* was accepted.
C4_OrderedFallback ==
    /\ Len(Invocations) <= Len(RunOrder)
    /\ \A i \in 1..Len(Invocations) :
        /\ Invocations[i].backend = RunOrder[i]
        /\ i < Len(Invocations) => ~Invocations[i].accepted /\ CallFailed(Invocations[i])
        /\ Invocations[i].accepted => ~RunTrying

\* A verification went to the second backend after the first one raised, and
\* the second was accepted.
C4_Witness ==
    /\ f_pc = "done"
    /\ Len(Invocations) = 2
    /\ Invocations[1].backend = "modal" /\ Invocations[1].raised
    /\ Invocations[2].backend = "transformers" /\ Invocations[2].accepted

\* C5: the verifier accepts a backend's extraction only if it parsed and holds
\* at least one item; an empty parse is a failure that sends the run to the
\* next backend; when every backend fails the verifier returns a failure value
\* (no extraction, a non-empty error) and raises nothing.
C5_VerifierAcceptsNonEmpty ==
    f_pc # "idle" =>
        /\ f_pc # "raised"
        /\ \A i \in 1..Len(Invocations) :
            /\ Invocations[i].accepted <=>
                  (~Invocations[i].raised /\ Invocations[i].parse_success
                   /\ Invocations[i].items >= 1)
            /\ (~Invocations[i].accepted /\ i < Len(f_args[1].backend_order)) =>
                  (i < Len(Invocations) \/ f_pc = "try")
        /\ f_pc = "done" =>
              IF \E i \in 1..Len(Invocations) : Invocations[i].accepted
              THEN /\ f_ret[1].extraction # None
                   /\ f_ret[1].extraction[1].parse_success
                   /\ ExtractionItems(f_ret[1].extraction[1]) # <<>>
                   /\ f_ret[1].backend_name = Invocations[Len(Invocations)].backend
              ELSE /\ Len(Invocations) = Len(f_args[1].backend_order)
                   /\ f_ret[1].extraction = None
                   /\ f_ret[1].error # ""

\* A verification ended without extraction after an empty parse of the first
\* backend and an exception of the second.
C5_Witness ==
    /\ f_pc = "done"
    /\ Len(Invocations) = 2
    /\ Invocations[1].parse_success /\ Invocations[1].items = 0
    /\ Invocations[2].raised
    /\ f_ret[1].extraction = None
    /\ f_ret[1].error # ""

\* The first text a handler of app.py returned.
AppText == IF a_args[1].handler = "analyze_prescription" THEN a_ret[1][1] ELSE a_ret[1]

\* How the failure of a backend reads in the handler's error text.
AppFailureText(e) ==
    IF e.raised THEN e.err
    ELSE "extracción inválida (parse_success=" \o PyBool(e.parse_success) \o ")"

\* A handler of app.py has returned after every backend failed.
AppAllFailed ==
    /\ a_pc = "done"
    /\ Invocations # <<>>
    /\ \A i \in 1..Len(Invocations) : ~Invocations[i].accepted

\* C6: when every configured backend fails the extraction of a handler of
\* app.py, the handler returns an error text that states the total failure and
\* names every attempted backend with its own failure; nothing of the output
\* is a report built from an extraction.
C6_AllFailedErrorText ==
    AppAllFailed =>
        /\ Len(Invocations) = Len(a_args[1].backend_order)
        /\ Contains("Error al analizar", AppText)
        /\ Contains("No se logró extraer información con los backends configurados", AppText)
        /\ \A i \in 1..Len(Invocations) :
              Contains(a_args[1].backend_order[i] \o ": " \o AppFailureText(Invocations[i]),
                       AppText)
        /\ a_result = None
        /\ a_args[1].handler = "analyze_prescription" =>
              a_ret[1] = <<AppText, "", "", "">>
        /\ ~Contains("## ", AppText)

\* analyze_prescription returned after the first backend raised and the second
\* one parsed an empty list.
C6_Witness ==
    /\ AppAllFailed
    /\ a_args[1].handler = "analyze_prescription"
    /\ Len(Invocations) = 2
    /\ Invocations[1].raised /\ Invocations[1].err = "timeout"
    /\ Invocations[2].parse_success /\ Invocations[2].items = 0

(***************************************************************************)
(* Properties of the routing and of analyze_document.                      *)
(***************************************************************************)
\* 0.62 as the routing claims state it.
ClaimThreshold == <<31, 50>>

\* The heuristic route of the document route_document was called with.
RouteHeuristic == _heuristic_route(r_args[1].ingested)

\* The heuristic route of the document analyze_document is analysing.
OrchHeuristic == _heuristic_route(o_loc[1].ingested)

\* The events of the classification: the backends constructed for it and the
\* model calls made for it.
RouteTrace == SelectSeq(calls, LAMBDA e : e.task = "route")

\* The model calls of the classification.
RouteCalls == SelectSeq(calls, LAMBDA e : e.task = "route" /\ e.ev = "call")

\* How often analyze_document has called route_document.
RouteDocumentCalls ==
    Len(SelectSeq(calls, LAMBDA e : e.ev = "stage" /\ e.task = "route_document"))

\* C7: for a document whose heuristic confidence is at least 0.62 no backend
\* is constructed or invoked for the classification. route_document returns
\* the heuristic decision, of method "heuristic", also when a backend is
\* supplied; analyze_document calls route_document once, without a backend,
\* never enters the backend loop and goes on with the heuristic kind.
C7_HighConfidenceNoBackend ==
    /\ (r_pc # "idle" /\ FGeq(RouteHeuristic.confidence, ClaimThreshold)) =>
          /\ r_pc = "done"
          /\ calls = <<>>
          /\ r_loc = None
          /\ r_ret[1].result[1].method = "heuristic"
          /\ r_ret[1].result[1].kind = RouteHeuristic.kind
          /\ r_ret[1].result[1].confidence = RouteHeuristic.confidence
          /\ r_ret[1].result[1].reasons = RouteHeuristic.reasons
    /\ (o_loc # None /\ FGeq(OrchHeuristic.confidence, ClaimThreshold)) =>
          /\ o_pc # "route"
          /\ RouteTrace = <<>>
          /\ RouteDocumentCalls = 1
          /\ o_loc[1].route_backend_name = ""
          /\ o_loc[1].route.method = "heuristic"
          /\ o_loc[1].route.kind = OrchHeuristic.kind
          /\ o_loc[1].selected_kind = OrchHeuristic.kind
          /\ o_pc = "done" => o_ret[1].result[1].route.kind = OrchHeuristic.kind

\* route_document returned for a document of confidence at least 0.62 and a
\* backend was supplied.
C7_Witness ==
    /\ r_pc = "done"
    /\ r_args[1].backend # None
    /\ FGeq(RouteHeuristic.confidence, ClaimThreshold)
    /\ r_ret[1].result[1].kind = "prescription"

\* route_document ran its model fallback and the call of the backend raised.
RouteModelRaised == r_pc # "idle" /\ calls # <<>> /\ calls[1].raised

\* C8 as stated: when the model fallback of route_document is triggered and
\* the call of the backend raises, route_document does not raise and returns
\* a decision of kind "unknown" and method "model_fallback_error".
C8_ErrorDecisionReturned ==
    RouteModelRaised =>
        /\ r_pc = "done"
        /\ r_ret[1].result[1].kind = "unknown"
        /\ r_ret[1].result[1].method = "model_fallback_error"

\* C8 amended: when the model fallback of route_document is triggered and the
\* call of the backend raises, route_document does not raise: the exception
\* becomes the decision of _classify_with_model, of kind "unknown" and method
\* "model_fallback_error", and route_document returns the heuristic decision,
\* of method "heuristic" with the heuristic kind and confidence, whose reasons
\* are the heuristic reasons and one more about the failed fallback.
C8_ErrorKeepsHeuristic ==
    RouteModelRaised =>
        /\ r_pc = "done"
        /\ ~r_loc[1].raised
        /\ r_loc[1].result[1].kind = "unknown"
        /\ r_loc[1].result[1].method = "model_fallback_error"
        /\ r_loc[1].result[1].confidence = FZero
        /\ r_ret[1].result[1].method = "heuristic"
        /\ r_ret[1].result[1].kind = RouteHeuristic.kind
        /\ r_ret[1].result[1].confidence = RouteHeuristic.confidence
        /\ r_ret[1].result[1].reasons =
              Append(RouteHeuristic.reasons,
                     "Fallback de clasificación no logró una ruta confiable; "
                     \o "se mantiene ruta desconocida.")

\* route_document returned the heuristic kind "prescription" after the call
\* of the backend raised.
C8_Witness ==
    /\ RouteModelRaised
    /\ r_pc = "done"
    /\ calls[1].err = "timeout"
    /\ r_ret[1].result[1].kind = "prescription"

\* analyze_document is past the classification of a document whose heuristic
\* confidence is below 0.62.
OrchLowConfidence ==
    o_loc # None /\ o_pc # "route" /\ FLess(OrchHeuristic.confidence, ClaimThreshold)

\* Every backend failed to classify: each of the model calls raised.
ClassificationFailed == \A i \in 1..Len(RouteCalls) : RouteCalls[i].raised

\* C9: below 0.62 analyze_document classifies with the backends in the
\* configured order and stops at the first one that yields a kind other than
\* "unknown"; when every backend fails to classify, an unknown kind stays
\* "unknown" and the warnings of the result hold one about the failed
\* classification.
C9_ClassificationFallback ==
    OrchLowConfidence =>
        /\ RouteCalls # <<>>
        /\ Len(RouteCalls) <= Len(o_loc[1].backend_order)
        /\ \A i \in 1..Len(RouteCalls) : RouteCalls[i].backend = o_loc[1].backend_order[i]
        /\ \A i \in 1..(Len(RouteCalls) - 1) : ~RouteCalls[i].accepted
        /\ Len(RouteCalls) < Len(o_loc[1].backend_order) => o_loc[1].route.kind # "unknown"
        /\ ClassificationFailed =>
              /\ OrchHeuristic.kind = "unknown" => o_loc[1].route.kind = "unknown"
              /\ \E i \in 1..Len(o_loc[1].warnings) :
                    Contains("clasificar", o_loc[1].warnings[i])
              /\ o_pc = "done" =>
                    \E i \in 1..Len(o_ret[1].result[1].warnings) :
                        Contains("clasificar", o_ret[1].result[1].warnings[i])

\* What ingestion made of the file analyze_document was called with.
OrchIngestion == ingest_document(o_args[1].file)

\* analyze_document was called with a file whose ingestion yields the source
\* "unsupported" or "pdf_no_text".
OrchRejected ==
    /\ o_pc # "idle"
    /\ ~OrchIngestion.raised
    /\ OrchIngestion.result[1].source \in {"unsupported", "pdf_no_text"}

\* C10: when ingestion yields the source "unsupported" or "pdf_no_text",
\* analyze_document returns at once a rejected result (parse_success False,
\* a route of kind "unknown", confidence 0 and method "unavailable", neither
\* a prescription nor a lab extraction) and has called neither
\* route_document, nor a verifier, nor a report builder, nor a backend.
C10_RejectedImmediately ==
    OrchRejected =>
        /\ o_pc = "done"
        /\ calls = <<>>
        /\ f_pc = "idle"
        /\ o_loc = None
        /\ ~o_ret[1].raised
        /\ o_ret[1].result[1].parse_success = FALSE
        /\ o_ret[1].result[1].route.kind = "unknown"
        /\ o_ret[1].result[1].route.confidence = FZero
        /\ o_ret[1].result[1].route.method = "unavailable"
        /\ o_ret[1].result[1].prescription = None
        /\ o_ret[1].result[1].lab = None
        /\ o_ret[1].result[1].prescription_output = ""
        /\ o_ret[1].result[1].lab_output = ""
        /\ o_ret[1].result[1].evidence_source = OrchIngestion.result[1].source

\* analyze_document returned the rejected result for a PDF without text.
C10_Witness ==
    /\ OrchRejected
    /\ o_pc = "done"
    /\ o_ret[1].result[1].evidence_source = "pdf_no_text"
    /\ o_ret[1].result[1].route.method = "unavailable"

\* analyze_document was called with an input in error: a file that does not
\* exist, a format that is not supported or a PDF without text.
OrchInputError == o_pc # "idle" /\ (~o_args[1].file.exists \/ OrchRejected)

\* C11: a missing file, an unsupported format and a PDF without text are all
\* detected at ingestion and become a rejected result that carries a Spanish
\* explanation for the user; none leaves ingest_document or analyze_document
\* as an exception.
C11_InputErrorsRejected ==
    OrchInputError =>
        /\ ~OrchIngestion.raised
        /\ o_pc = "done"
        /\ ~o_ret[1].raised
        /\ o_ret[1].result[1].parse_success = FALSE
        /\ o_ret[1].result[1].route.method = "unavailable"
        /\ o_ret[1].result[1].prescription = None
        /\ o_ret[1].result[1].lab = None
        /\ o_ret[1].result[1].warnings # <<>>
        /\ Contains("No se pudo analizar este documento",
                    o_ret[1].result[1].report_markdown)

\* The UnifiedDocumentResult analyze_document returned.
OrchReturned == o_pc = "done" /\ ~o_ret[1].raised

OrchResult == o_ret[1].result[1]

\* C12: in every result of analyze_document parse_success is True exactly
\* when the extraction of the selected branch (result.prescription or
\* result.lab) exists, parsed and holds at least one item; a result holds at
\* most one of the two extractions and none means parse_success False.
C12_ParseSuccessIffExtraction ==
    OrchReturned =>
        /\ ~(OrchResult.prescription # None /\ OrchResult.lab # None)
        /\ OrchResult.parse_success <=>
              \/ /\ OrchResult.prescription # None
                 /\ OrchResult.prescription[1].parse_success
                 /\ OrchResult.prescription[1].medicamentos # <<>>
              \/ /\ OrchResult.lab # None
                 /\ OrchResult.lab[1].parse_success
                 /\ OrchResult.lab[1].resultados # <<>>
        /\ (OrchResult.prescription = None /\ OrchResult.lab = None) =>
              ~OrchResult.parse_success

\* A document routed "unknown" whose prescription verification was accepted
\* and whose lab extraction, the richer one, was selected.
C12_Witness ==
    /\ OrchReturned
    /\ o_loc # None
    /\ o_loc[1].route.kind = "unknown"
    /\ \E i \in 1..Len(calls) : calls[i].task = "prescription" /\ calls[i].accepted
    /\ OrchResult.lab # None
    /\ OrchResult.prescription = None
    /\ OrchResult.parse_success

\* What analyze_document did for a verifier: its call and the model calls of
\* its backends.
VerifierTrace(task, stage) ==
    SelectSeq(calls, LAMBDA e : e.task = task \/ (e.ev = "stage" /\ e.task = stage))

\* How often analyze_document called a verifier.
VerifierCalls(stage) == Len(SelectSeq(calls, LAMBDA e : e.ev = "stage" /\ e.task = stage))

\* analyze_document is past its classification; the routed kind is
\* o_loc[1].route.kind.
OrchRoutedKind == o_loc # None /\ o_pc # "route"

\* analyze_document is past both verification stages.
OrchVerified == o_loc # None /\ o_pc \in {"assemble", "done"}

\* C13: analyze_document attempts the prescription verification exactly for
\* the routed kinds "prescription" and "unknown" and the lab verification
\* exactly for "lab" and "unknown": a document routed "prescription" never
\* reaches the lab verifier nor a backend for it, and a document routed "lab"
\* never the prescription verifier.
C13_VerifiersFollowRoute ==
    /\ OrchRoutedKind =>
          /\ VerifierTrace("prescription", "_verify_prescription") # <<>> =>
                o_loc[1].route.kind \in {"prescription", "unknown"}
          /\ VerifierTrace("lab", "_verify_lab") # <<>> =>
                o_loc[1].route.kind \in {"lab", "unknown"}
    /\ OrchVerified =>
          /\ o_loc[1].route.kind \in {"prescription", "unknown"} =>
                VerifierCalls("_verify_prescription") = 1
          /\ o_loc[1].route.kind \in {"lab", "unknown"} =>
                VerifierCalls("_verify_lab") = 1

\* A document routed "prescription" was verified by a backend and the lab
\* verifier never ran.
C13_Witness ==
    /\ OrchVerified
    /\ o_loc[1].route.kind = "prescription"
    /\ \E i \in 1..Len(calls) : calls[i].task = "prescription" /\ calls[i].ev = "call"
    /\ VerifierTrace("lab", "_verify_lab") = <<>>

\* The report builders analyze_document called that raised.
BuildersRaised ==
    SelectSeq(calls, LAMBDA e :
        e.ev = "stage" /\ e.raised
        /\ e.task \in {"build_prescription_output", "build_lab_results_output"})

\* analyze_document returned after a report builder raised.
BuilderFailed == OrchReturned /\ o_loc # None /\ BuildersRaised # <<>>

\* The extraction a result keeps, and the minimal listing of it.
KeptExtraction(result, builder) ==
    IF builder = "build_prescription_output" THEN result.prescription ELSE result.lab

KeptListing(result, builder) ==
    IF builder = "build_prescription_output"
    THEN result.prescription_output ELSE result.lab_output

\* The first field of every extracted item is in the listing.
ListsEveryItem(listing, extraction) ==
    \A i \in 1..Len(ExtractionItems(extraction)) :
        Contains("- " \o (IF "nombre_medicamento" \in DOMAIN ExtractionItems(extraction)[i]
                         THEN ExtractionItems(extraction)[i].nombre_medicamento
                         ELSE ExtractionItems(extraction)[i].nombre_prueba),
                 listing)

\* C14: when the prescription report or the lab table raises after a
\* successful extraction, analyze_document returns: parse_success is True,
\* the extraction is in the result, the report is a minimal listing of the
\* extracted fields, warnings got one warning for the user and
\* uncertainty_notes one technical note, different from the warning, that
\* carries the exception.
C14_BuilderFailureDegrades ==
    BuilderFailed =>
        /\ Len(BuildersRaised) = 1
        /\ OrchResult.parse_success
        /\ KeptExtraction(OrchResult, BuildersRaised[1].task) # None
        /\ ExtractionItems(KeptExtraction(OrchResult, BuildersRaised[1].task)[1]) # <<>>
        /\ Contains("### ", KeptListing(OrchResult, BuildersRaised[1].task))
        /\ Contains("(sin ", KeptListing(OrchResult, BuildersRaised[1].task))
        /\ ListsEveryItem(KeptListing(OrchResult, BuildersRaised[1].task),
                          KeptExtraction(OrchResult, BuildersRaised[1].task)[1])
        /\ Contains(KeptListing(OrchResult, BuildersRaised[1].task),
                    OrchResult.report_markdown)
        /\ Len(OrchResult.warnings) = Len(o_loc[1].warnings) + 1
        /\ SubSeq(OrchResult.warnings, 1, Len(o_loc[1].warnings)) = o_loc[1].warnings
        /\ Contains("No se pudo completar", OrchResult.warnings[Len(OrchResult.warnings)])
        /\ Len(OrchResult.uncertainty_notes) = Len(o_loc[1].uncertainty_notes) + 1
        /\ Contains(BuildersRaised[1].err,
                    OrchResult.uncertainty_notes[Len(OrchResult.uncertainty_notes)])
        /\ OrchResult.uncertainty_notes[Len(OrchResult.uncertainty_notes)]
              # OrchResult.warnings[Len(OrchResult.warnings)]

\* analyze_document returned the listing of two medications after
\* build_prescription_output raised.
C14_Witness ==
    /\ BuilderFailed
    /\ BuildersRaised[1].task = "build_prescription_output"
    /\ BuildersRaised[1].err = "timeout"
    /\ Len(OrchResult.prescription[1].medicamentos) = 2
    /\ OrchResult.parse_success


(***************************************************************************)
(* C15: one failing registry query does not stop match_drug_to_cum.        *)
(***************************************************************************)
MatchDosage == SeparateDosage(_normalize_drug_name(MatchName), m_args[1].dosage)

\* The records a result hands back: the match and the other matches.
ReturnedRecords(r) ==
    {r.other_matches[i] : i \in 1..Len(r.other_matches)}
    \cup (IF r.record = None THEN {} ELSE {r.record[1]})

\* The candidates of the one query that answered, scored as the code scores them.
SurvivingCandidates ==
    IF m_calls[1].ok
    THEN ProductCandidates(m_calls[1].rows, MatchDosage[1], MatchDosage[2], MatchDosage[3])
    ELSE IngredientCandidates(<<>>, m_calls[2].rows,
                              MatchDosage[1], MatchDosage[2], MatchDosage[3])

IsBestScore(score, cands) ==
    /\ \E i \in 1..Len(cands) : cands[i].score = score
    /\ \A i \in 1..Len(cands) : FGeq(score, cands[i].score)

QueryErrorRecorded(call, key) ==
    IF call.ok THEN key \notin DOMAIN MatchResult.debug_info
    ELSE /\ key \in DOMAIN MatchResult.debug_info
         /\ MatchResult.debug_info[key] = call.err

\* C15: a call of match_drug_to_cum that got past its guards issues both
\* registry queries, product name first, whether or not the first one raised;
\* each query that raised leaves its message under product_search_error or
\* ingredient_search_error of debug_info and no query that answered does; when
\* exactly one raised, the rows of the other are scored and are the records
\* the result hands back, with the best of their scores as confidence; when
\* both raised the result has match_type "none", no record and no other match.
C15_QueryFailuresIsolated ==
    (MatchDone /\ m_calls # <<>>) =>
        /\ Len(m_calls) = 2
        /\ m_calls[1].fn = "search_by_product_name"
        /\ m_calls[2].fn = "search_by_active_ingredient"
        /\ QueryErrorRecorded(m_calls[1], "product_search_error")
        /\ QueryErrorRecorded(m_calls[2], "ingredient_search_error")
        /\ (m_calls[1].ok # m_calls[2].ok) =>
              /\ ReturnedRecords(MatchResult)
                    = {SurvivingCandidates[i].record : i \in 1..Len(SurvivingCandidates)}
              /\ SurvivingCandidates # <<>> =>
                    IsBestScore(MatchResult.confidence, SurvivingCandidates)
        /\ (~m_calls[1].ok /\ ~m_calls[2].ok) =>
              /\ MatchResult.match_type = "none"
              /\ MatchResult.record = None
              /\ MatchResult.other_matches = <<>>

\* The product-name query raised and a row of the ingredient query became the
\* match.
C15_Witness ==
    /\ MatchDone
    /\ Len(m_calls) = 2
    /\ ~m_calls[1].ok
    /\ m_calls[2].ok
    /\ MatchResult.record # None
    /\ "product_search_error" \in DOMAIN MatchResult.debug_info


(***************************************************************************)
(* C16: the selection among the collected candidates.                      *)
(***************************************************************************)
Selected == h_pc = "selected"
SelectInput == h_args[1].all_candidates
SelectResult == h_ret[1]

\* The score a record was collected with (every collected record is distinct).
ScoreOfRecord(record) ==
    SelectInput[CHOOSE i \in 1..Len(SelectInput) : SelectInput[i].record = record].score

IsBestCandidate(c) ==
    /\ \E i \in 1..Len(SelectInput) : SelectInput[i] = c
    /\ \A i \in 1..Len(SelectInput) : FGeq(c.score, SelectInput[i].score)

\* `others` are `n` distinct collected records in descending order of score,
\* none of them in `excluded`, and no record left out scores more than one
\* that is in.
TopRanked(others, n, excluded) ==
    /\ Len(others) = n
    /\ \A i \in 1..Len(others) :
          /\ \E k \in 1..Len(SelectInput) : SelectInput[k].record = others[i]
          /\ others[i] \notin excluded
          /\ \A j \in 1..Len(others) :
                /\ (i < j) => FGeq(ScoreOfRecord(others[i]), ScoreOfRecord(others[j]))
                /\ (i # j) => others[i] # others[j]
    /\ \A k \in 1..Len(SelectInput) :
          (/\ SelectInput[k].record \notin excluded
           /\ \A i \in 1..Len(others) : others[i] # SelectInput[k].record)
          => \A i \in 1..Len(others) :
                FGeq(ScoreOfRecord(others[i]), SelectInput[k].score)

Least(a, b) == IF a < b THEN a ELSE b

\* C16: with no candidate the result is "none" with confidence 0 and no other
\* match; with a best score below 0.5 it is "none" with no record, that best
\* score as confidence and the five best candidates (the best included) as
\* other_matches; otherwise the record is a best candidate, match_type and
\* confidence are its type and score, and other_matches are the next five in
\* rank at most, never the record itself.
C16_SelectionByRank ==
    Selected =>
        IF SelectInput = <<>>
        THEN /\ SelectResult.match_type = "none"
             /\ SelectResult.record = None
             /\ SelectResult.confidence = FZero
             /\ SelectResult.other_matches = <<>>
        ELSE IF \A i \in 1..Len(SelectInput) : FLess(SelectInput[i].score, <<1, 2>>)
        THEN /\ SelectResult.match_type = "none"
             /\ SelectResult.record = None
             /\ \E i \in 1..Len(SelectInput) :
                   /\ IsBestCandidate(SelectInput[i])
                   /\ SelectResult.confidence = SelectInput[i].score
                   /\ SelectResult.other_matches[1] = SelectInput[i].record
             /\ TopRanked(SelectResult.other_matches, Least(5, Len(SelectInput)), {})
        ELSE /\ SelectResult.record # None
             /\ \E i \in 1..Len(SelectInput) :
                   /\ IsBestCandidate(SelectInput[i])
                   /\ SelectResult.record = Some(SelectInput[i].record)
                   /\ SelectResult.confidence = SelectInput[i].score
                   /\ SelectResult.match_type = SelectInput[i].match_type
             /\ TopRanked(SelectResult.other_matches, Least(5, Len(SelectInput) - 1),
                          {SelectResult.record[1]})

\* Seven candidates with an acceptable best: the record and five others come
\* back, the weakest is left out.
C16_Witness ==
    /\ Selected
    /\ Len(SelectInput) = 7
    /\ SelectResult.record # None
    /\ Len(SelectResult.other_matches) = 5
    /\ \E i \in 1..7 : FLess(SelectInput[i].score, <<1, 2>>)


(***************************************************************************)
(* C17: the dosage bonus of _calculate_match_score.                        *)
(***************************************************************************)
Scored == h_pc = "scored"
ScoreArgs == h_args[1]
ScoreResult == h_ret[1]

\* The extracted value is the record's concentration value.
ValueAgrees(a) ==
    /\ a.dosage_value # ""
    /\ a.record.concentracion_valor # ""
    /\ a.dosage_value = ReplaceComma(a.record.concentracion_valor)

\* The extracted unit is the record's unit, whatever the case of the letters.
UnitAgrees(a) ==
    /\ a.dosage_unit # ""
    /\ a.record.unidadmedida # ""
    /\ Upper(a.dosage_unit) = Upper(a.record.unidadmedida)

\* Both units are there and they are not the same unit.
UnitDiffers(a) ==
    /\ a.dosage_unit # ""
    /\ a.record.unidadmedida # ""
    /\ Upper(a.dosage_unit) # Upper(a.record.unidadmedida)

\* The score of the same query and record when no dosage was extracted.
ScoreWithoutDosage(a) == _calculate_match_score(a.query, a.record, "", "")

\* The score of the same query and record when the extracted dosage is the
\* record's own.
ScoreWithRecordDosage(a) ==
    _calculate_match_score(a.query, a.record,
                           ReplaceComma(a.record.concentracion_valor),
                           Upper(a.record.unidadmedida))

\* The score carries 0.10 more than the score without a dosage, up to the
\* ceiling of 1.0, exactly when value and unit both agree.
BonusExactlyOnAgreement(a, score) ==
    score = IF ValueAgrees(a) /\ UnitAgrees(a)
            THEN FMin(<<1, 1>>, FAdd(ScoreWithoutDosage(a), <<1, 10>>))
            ELSE ScoreWithoutDosage(a)

\* C17 as stated: the 0.10 bonus is applied exactly when the extracted value
\* and unit are both present and both equal the record's, and a score with the
\* right value and another unit is strictly lower than the score with both
\* right.
C17_DosageBonusStrict ==
    Scored =>
        /\ BonusExactlyOnAgreement(ScoreArgs, ScoreResult)
        /\ (ValueAgrees(ScoreArgs) /\ UnitDiffers(ScoreArgs)) =>
              FLess(ScoreResult, ScoreWithRecordDosage(ScoreArgs))

\* C17, amended: the 0.10 bonus is applied, before the total is clamped to
\* 1.0, exactly when the extracted value and unit are both present and both
\* equal the record's; a score with the right value and another unit is never
\* higher than the score with both right, and strictly lower whenever it is
\* itself below 1.0.
C17_DosageBonusClamped ==
    Scored =>
        /\ BonusExactlyOnAgreement(ScoreArgs, ScoreResult)
        /\ (ValueAgrees(ScoreArgs) /\ UnitDiffers(ScoreArgs)) =>
              /\ FGeq(ScoreWithRecordDosage(ScoreArgs), ScoreResult)
              /\ FLess(ScoreResult, <<1, 1>>) =>
                    FLess(ScoreResult, ScoreWithRecordDosage(ScoreArgs))

\* Both cases of a right value with another unit were scored: one below the
\* ceiling, one at it.
C17_Witness ==
    /\ Scored
    /\ ValueAgrees(ScoreArgs)
    /\ UnitDiffers(ScoreArgs)
    /\ ScoreArgs.query = "ASA"
    /\ ScoreArgs.record.producto = "ASA MAX"
    /\ ScoreResult = <<1, 1>>
    /\ ScoreWithRecordDosage(ScoreArgs) = <<1, 1>>


(***************************************************************************)
(* C18: enrich_medication when the matcher found no record.                *)
(***************************************************************************)
\* A call has returned right after the matcher came back without a record.
EnrichUnmatched ==
    /\ e_pc = "done"
    /\ e_ret # None
    /\ e_ret[1].match.record = None

\* C18: when match_drug_to_cum returns no record, enrich_medication calls
\* neither find_generics nor get_price_by_expediente, and the result it
\* returns has generics [], prices [], price_summary None and warnings [].
C18_UnmatchedNothingEnriched ==
    EnrichUnmatched =>
        /\ e_calls = <<>>
        /\ e_ret[1].generics = <<>>
        /\ e_ret[1].prices = <<>>
        /\ e_ret[1].price_summary = None
        /\ "warnings" \in DOMAIN e_ret[1]
        /\ e_ret[1].warnings = <<>>


(***************************************************************************)
(* C19: the heuristic router on a tie of the keyword scores.               *)
(***************************************************************************)
\* The weights of the hints found in the text, added as decimal numbers.
RECURSIVE WeightOfHits(_)
WeightOfHits(hits) ==
    IF hits = <<>> THEN FZero
    ELSE FAdd(Frac(Head(hits)[2][1], 10), WeightOfHits(Tail(hits)))

KeywordScore(ingested, hints) ==
    WeightOfHits(HintHits(_normalize_text(ingested.extracted_text), hints))

\* The document has keywords of both kinds, of the same total weight.
ScoresTied(ingested) ==
    /\ KeywordScore(ingested, PRESCRIPTION_HINTS) # FZero
    /\ KeywordScore(ingested, PRESCRIPTION_HINTS) = KeywordScore(ingested, LAB_HINTS)

\* C19: for every document whose prescription-keyword score equals its
\* lab-keyword score, both above zero, the heuristic route that
\* route_document computes has kind "unknown" and a confidence of at most 0.4:
\* on a tie the heuristic picks neither prescription nor lab.
C19_TieIsUnknown ==
    (r_pc # "idle" /\ ScoresTied(r_args[1].ingested)) =>
        /\ RouteHeuristic.kind = "unknown"
        /\ ~FLess(<<2, 5>>, RouteHeuristic.confidence)


(***************************************************************************)
(* C20: the three gates of answer_question.                                *)
(***************************************************************************)
ChatRunning == c_args # None
ChatQuestion == c_args[1].question
ChatContext == c_args[1].context

\* One of the trigger phrases is in the question, whatever the case of the
\* letters.
HasTriggerPhrase(question) ==
    \E phrase \in blocked_phrases : Contains(Upper(phrase), Upper(question))

\* answer_question has returned an answer that holds `words`, and no backend
\* was asked for or called.
AnsweredWithoutBackend(words) ==
    /\ c_pc = "done"
    /\ c_ret # None
    /\ Contains(words, c_ret[1])
    /\ calls = <<>>

\* C20: answer_question returns a fixed response and invokes no backend in
\* three cases, checked in this order: without a context, the response that
\* asks to analyze a document first; else with an empty or blank question, the
\* response that nothing can be confirmed; else with a question that holds a
\* trigger phrase in any case of letters, the refusal.
C20_FixedResponsesFirst ==
    ChatRunning =>
        IF ChatContext = None
        THEN /\ AnsweredWithoutBackend("Primero analice un documento")
             /\ c_ret[1] = NEEDS_CONTEXT_RESPONSE
        ELSE IF IsBlank(ChatQuestion)
        THEN /\ AnsweredWithoutBackend("No se puede confirmar")
             /\ c_ret[1] = UNKNOWN_RESPONSE
        ELSE HasTriggerPhrase(ChatQuestion) =>
                /\ AnsweredWithoutBackend("No puedo diagnosticar")
                /\ c_ret[1] = REFUSAL_RESPONSE

\* A question about stopping a medicine, asked with a context, was refused.
C20_Witness ==
    /\ ChatRunning
    /\ ChatContext # None
    /\ ChatQuestion = "Puedo SUSPENDER la pastilla?"
    /\ c_pc = "done"
    /\ c_ret = Some(REFUSAL_RESPONSE)
    /\ calls = <<>>


(***************************************************************************)
(* C21, C22: what answer_question returns.                                 *)
(***************************************************************************)
ChatAnswered == c_pc = "done" /\ c_ret # None

\* The generate_text calls of the running follow-up question.
ChatInvocations == SelectSeq(calls, LAMBDA e : e.task = "followup" /\ e.ev = "call")

\* The backend raised or its answer is empty once stripped.
ChatCallFailed(e) == e.raised \/ e.items = 0

\* The lower-case `phrase` is in `text`, whatever the case of its letters there.
HoldsInAnyCase(phrase, text) ==
    \E i \in 1..(Len(text) - Len(phrase) + 1) :
        Lower(SubSeq(text, i, i + Len(phrase) - 1)) = phrase

\* C21: every string answer_question returns holds the sentence
\* "no reemplaza el consejo médico", whatever the case of its letters: the
\* three fixed responses, the response after every backend failed, and the
\* answer of a model, also when the model left the sentence out.
C21_DisclaimerAlways ==
    ChatAnswered => HoldsInAnyCase("no reemplaza el consejo médico", c_ret[1])

\* A model answered without the sentence and the answer came back with it.
C21_Witness ==
    /\ ChatAnswered
    /\ ChatInvocations # <<>>
    /\ ChatInvocations[Len(ChatInvocations)].accepted
    /\ c_ret[1] = "Sirve para el dolor.\n\n"
                  \o "Esta herramienta es educativa y no reemplaza el consejo médico."

\* C22: answer_question never raises; when every backend of the order raised
\* or answered with an empty or blank string, every backend of the order was
\* tried, one after the other, and the fixed response that nothing can be
\* confirmed is returned; after a blank answer the next backend is tried just
\* as after an exception.
C22_AllFailedUnknown ==
    c_pc # "idle" =>
        /\ c_pc \in {"try", "done"}
        /\ \A i \in 1..Len(ChatInvocations) :
              /\ ChatInvocations[i].backend = c_args[1].backend_order[i]
              /\ ChatInvocations[i].accepted <=> ~ChatCallFailed(ChatInvocations[i])
              /\ (ChatCallFailed(ChatInvocations[i])
                  /\ i < Len(c_args[1].backend_order)) =>
                    (i < Len(ChatInvocations) \/ (c_pc = "try" /\ c_idx = i + 1))
        /\ (/\ c_pc = "done"
            /\ ChatInvocations # <<>>
            /\ \A i \in 1..Len(ChatInvocations) : ChatCallFailed(ChatInvocations[i])) =>
              /\ Len(ChatInvocations) = Len(c_args[1].backend_order)
              /\ c_ret = Some("No se puede confirmar con la información disponible. "
                   \o "Esta herramienta es educativa y no reemplaza el consejo médico.")

\* The first backend answered with blanks, the second raised, and the fixed
\* response came back.
C22_Witness ==
    /\ ChatAnswered
    /\ Len(ChatInvocations) = 2
    /\ ~ChatInvocations[1].raised /\ ChatInvocations[1].items = 0
    /\ ChatInvocations[2].raised
    /\ c_ret[1] = UNKNOWN_RESPONSE


(***************************************************************************)
(* C23: the construction of backend instances.                             *)
(***************************************************************************)
CacheModules == {"orchestrator", "app", "chat"}
SupportedNames == {SUPPORTED_BACKENDS[i] : i \in 1..Len(SUPPORTED_BACKENDS)}

\* The module whose handler is running.
RunningModule ==
    IF c_pc # "idle" THEN "chat" ELSE IF a_pc # "idle" THEN "app" ELSE "orchestrator"

\* The entries the step adds to the trace of the running handler.
AddedEvents ==
    IF Len(calls') >= Len(calls) /\ SubSeq(calls', 1, Len(calls)) = calls
    THEN SubSeq(calls', Len(calls) + 1, Len(calls'))
    ELSE calls'

\* The step calls get_backend(name).
Constructs(name) ==
    \E i \in 1..Len(AddedEvents) :
        AddedEvents[i].ev = "get_backend" /\ AddedEvents[i].backend = name

\* The step uses the backend `name`: it calls a method of its instance.
Uses(name) ==
    \E i \in 1..Len(AddedEvents) :
        AddedEvents[i].ev = "call" /\ AddedEvents[i].backend = name

\* Some module holds an instance of the backend.
ConstructedBefore(name) == \E m \in CacheModules : name \in _backend_cache[m]

\* C23 as stated: over the lifetime of the process get_backend is called at
\* most once for each backend name, whatever the mix of verifications,
\* single-task extractions and follow-up questions; no step calls
\* get_backend for a name an instance of which was constructed before.
C23_ConstructedOncePerProcess ==
    [][\A name \in SupportedNames : Constructs(name) => ~ConstructedBefore(name)]_vars

\* C23, amended: each of the three modules constructs its backend instances
\* lazily and at most once per backend name: a step calls get_backend for a
\* name exactly when the running module uses that backend and holds no
\* instance of it yet, the instance is then kept by that module, and no module
\* ever loses an instance it holds.
C23_ConstructedOncePerModule ==
    [][/\ \A name \in SupportedNames :
            /\ Constructs(name) <=> (Uses(name) /\ name \notin _backend_cache[RunningModule])
            /\ Uses(name) => name \in _backend_cache'[RunningModule]
       /\ \A m \in CacheModules : _backend_cache[m] \subseteq _backend_cache'[m]
       /\ \A m \in CacheModules \ {RunningModule} : _backend_cache'[m] = _backend_cache[m]
      ]_vars

\* The follow-up chat holds an instance of a backend the app handlers and the
\* orchestrator hold one of as well, and a further question was answered by
\* it without a construction.
C23_Witness ==
    /\ "modal" \in _backend_cache["chat"]
    /\ "modal" \in _backend_cache["app"]
    /\ "modal" \in _backend_cache["orchestrator"]
    /\ c_pc = "done"
    /\ Len(calls) = 1
    /\ calls[1].ev = "call" /\ calls[1].backend = "modal"


(***************************************************************************)
(* Properties of the selection between the two extractions.                *)
(***************************************************************************)

\* The verifier of `task` accepted the answer of a backend.
VerifiedBy(task, i) ==
    /\ i \in 1..Len(calls)
    /\ calls[i].ev = "call" /\ calls[i].task = task /\ calls[i].accepted

Verified(task) == \E i \in 1..Len(calls) : VerifiedBy(task, i)

\* The accepted call of the verifier of `task`.
AcceptedCall(task) == calls[CHOOSE i \in 1..Len(calls) : VerifiedBy(task, i)]

\* analyze_document returned for a document routed "unknown" whose two
\* verifications both returned a valid extraction.
BothVerified ==
    /\ OrchReturned
    /\ o_loc # None
    /\ o_loc[1].route.kind = "unknown"
    /\ Verified("prescription")
    /\ Verified("lab")

LabIsRicher == AcceptedCall("lab").items > AcceptedCall("prescription").items

\* C24: when the routed kind is "unknown" and both verifications return a
\* valid extraction, the final kind is "lab" exactly when the lab extraction
\* holds strictly more results than the prescription extraction holds
\* medications, "prescription" otherwise (a tie included), and the result
\* keeps exactly the extraction of the chosen kind.
C24_RicherExtractionWins ==
    BothVerified =>
        /\ OrchResult.route.kind = "lab" <=> LabIsRicher
        /\ OrchResult.route.kind = "prescription" <=> ~LabIsRicher
        /\ LabIsRicher =>
              /\ OrchResult.prescription = None
              /\ OrchResult.lab # None
              /\ Len(OrchResult.lab[1].resultados) = AcceptedCall("lab").items
        /\ ~LabIsRicher =>
              /\ OrchResult.lab = None
              /\ OrchResult.prescription # None
              /\ Len(OrchResult.prescription[1].medicamentos)
                    = AcceptedCall("prescription").items

\* Both verifications succeeded with as many results as medications and the
\* prescription was kept.
C24_Witness ==
    /\ BothVerified
    /\ AcceptedCall("lab").items = AcceptedCall("prescription").items
    /\ OrchResult.route.kind = "prescription"
    /\ OrchResult.prescription # None

\* C25: every result of analyze_document holds at most one of prescription
\* and lab, and route.kind agrees with the one it holds: with prescription
\* set the kind is "prescription" and lab is None, with lab set the kind is
\* "lab" and prescription is None.
C25_KindAgreesWithExtraction ==
    OrchReturned =>
        /\ ~(OrchResult.prescription # None /\ OrchResult.lab # None)
        /\ OrchResult.prescription # None =>
              OrchResult.route.kind = "prescription" /\ OrchResult.lab = None
        /\ OrchResult.lab # None =>
              OrchResult.route.kind = "lab" /\ OrchResult.prescription = None

\* A document routed "unknown" whose lab verification failed on every backend
\* after the prescription verification succeeded.
C25_Witness ==
    /\ OrchReturned
    /\ o_loc # None
    /\ o_loc[1].route.kind = "unknown"
    /\ VerifierCalls("_verify_lab") = 1
    /\ ~Verified("lab")
    /\ OrchResult.prescription # None
    /\ OrchResult.route.kind = "prescription"

\* The extraction a result holds, or None.
SelectedExtraction(result) ==
    IF result.prescription # None THEN result.prescription ELSE result.lab

\* The task of the extraction a result holds.
SelectedTask(result) == IF result.prescription # None THEN "prescription" ELSE "lab"

\* C26: in every result that holds an extraction, used_backend is the
\* backend that produced that extraction and raw_verification_response is
\* that extraction's raw response, also when the routed kind was "unknown"
\* and both verifications succeeded, on the same or on different backends.
C26_BackendOfSelectedExtraction ==
    (OrchReturned /\ SelectedExtraction(OrchResult) # None) =>
        /\ OrchResult.used_backend = AcceptedCall(SelectedTask(OrchResult)).backend
        /\ OrchResult.raw_verification_response
              = SelectedExtraction(OrchResult)[1].raw_response


(***************************************************************************)
(* Properties of the match types and of the merged candidates.             *)
(***************************************************************************)

\* The rows a registry query of this call answered with.
RowsOf(fn) ==
    IF \E i \in 1..Len(m_calls) : m_calls[i].fn = fn /\ m_calls[i].ok
    THEN m_calls[CHOOSE i \in 1..Len(m_calls) : m_calls[i].fn = fn /\ m_calls[i].ok].rows
    ELSE <<>>

ProductRows == RowsOf("search_by_product_name")
IngredientRows == RowsOf("search_by_active_ingredient")

InRows(record, rows) == \E i \in 1..Len(rows) : rows[i] = record

\* C27: in every result of match_drug_to_cum, match_type "exact" means the
\* record is a row of the product-name search and confidence is at least
\* 0.8; "active_ingredient" means the record is a row of the ingredient
\* search whose active ingredient, in the registry's upper case, is the
\* normalized query, and confidence is at least 0.85; a matched row of the
\* product-name search with confidence below 0.8 is labelled "fuzzy"; and
\* confidence lies in [0, 1].
C27_MatchTypeLabels ==
    MatchDone =>
        /\ MatchResult.match_type = "exact" =>
              /\ MatchResult.record # None
              /\ InRows(MatchResult.record[1], ProductRows)
              /\ FGeq(MatchResult.confidence, <<4, 5>>)
        /\ MatchResult.match_type = "active_ingredient" =>
              /\ MatchResult.record # None
              /\ InRows(MatchResult.record[1], IngredientRows)
              /\ Upper(MatchResult.record[1].principioactivo)
                    = MatchResult.query_normalized
              /\ FGeq(MatchResult.confidence, <<17, 20>>)
        /\ (/\ MatchResult.record # None
            /\ InRows(MatchResult.record[1], ProductRows)
            /\ FLess(MatchResult.confidence, <<4, 5>>)) =>
              MatchResult.match_type = "fuzzy"
        /\ FGeq(MatchResult.confidence, FZero)
        /\ FGeq(FOne, MatchResult.confidence)

\* A row that only the ingredient search returned became the match, ahead of
\* a row of the product-name search.
C27_Witness ==
    /\ MatchDone
    /\ MatchResult.match_type = "active_ingredient"
    /\ ~InRows(MatchResult.record[1], ProductRows)
    /\ ProductRows # <<>>
    /\ FGeq(MatchResult.confidence, <<17, 20>>)

\* The records match_drug_to_cum ranked, as far as the result shows them.
RankedRecords ==
    IF MatchResult.record = None THEN MatchResult.other_matches
    ELSE <<MatchResult.record[1]>> \o MatchResult.other_matches

\* The result shows every ranked candidate.
ShowsAllRanked ==
    /\ MatchDone
    /\ "total_candidates" \in DOMAIN MatchResult.debug_info
    /\ MatchResult.debug_info["total_candidates"] = Len(RankedRecords)

\* How many of the rows carry the registry number.
CountExpediente(rows, exp) ==
    Cardinality({i \in 1..Len(rows) : rows[i].expedientecum = exp})

Expedientes == {r.expedientecum : r \in Registry}

\* C28 (as stated): the ranked candidates are deduplicated by expedientecum:
\* no registry number occurs twice among them, so no entry of other_matches
\* has the registry number of the matched record.
C28_NoRegistryNumberTwice ==
    ShowsAllRanked =>
        \A exp \in Expedientes : CountExpediente(RankedRecords, exp) <= 1

\* C28 (amended): every row of the product-name search is ranked, also rows
\* that share a registry number; a row of the ingredient search is ranked
\* only when no candidate ranked before it carries its registry number.  A
\* registry number of the product-name rows is ranked as often as it occurs
\* in them, any other registry number of the ingredient rows once.
C28_IngredientRowsDeduplicated ==
    ShowsAllRanked =>
        \A exp \in Expedientes :
            CountExpediente(RankedRecords, exp)
               = IF CountExpediente(ProductRows, exp) > 0
                 THEN CountExpediente(ProductRows, exp)
                 ELSE IF CountExpediente(IngredientRows, exp) > 0 THEN 1 ELSE 0

\* Two presentations of one registration came from the product-name search,
\* one became the match and the other is among the other matches, and the
\* ingredient search answered with the registration again.
C28_Witness ==
    /\ ShowsAllRanked
    /\ MatchResult.record # None
    /\ CountExpediente(MatchResult.other_matches, MatchResult.record[1].expedientecum) = 1
    /\ CountExpediente(IngredientRows, MatchResult.record[1].expedientecum) > 0


(***************************************************************************)
(* Properties of the price summary.                                        *)
(***************************************************************************)

\* The price request of enrich_medication answered.
PricesReturned ==
    /\ e_pc \in {"done", "raised"}
    /\ e_calls # <<>>
    /\ e_calls[Len(e_calls)].fn = "get_price_by_expediente"
    /\ e_calls[Len(e_calls)].ok

\* The summary the claim describes for a non-empty list of price records.
SummaryOf(prices) ==
    [min |-> MinOf({prices[i].precio_minimo : i \in 1..Len(prices)}),
     max |-> MaxOf({prices[i].precio_maximo : i \in 1..Len(prices)}),
     avg |-> Frac(SumPromedio(prices), Len(prices)),
     fecha_datos |-> MaxStr({prices[i].fechacorte : i \in 1..Len(prices)}),
     num_registros |-> Len(prices)]

\* C29: get_price_range returns None for an empty list and, for every
\* non-empty list of records with a non-zero average price, returns without
\* raising the summary of the smallest minimum, the largest maximum, the mean
\* of the averages, the most recent date and the number of records; so once
\* the price request answered, enrich_medication returns, and its
\* price_summary is None only when no price record was kept.
C29_PriceSummaryTotal ==
    PricesReturned =>
        /\ e_pc = "done"
        /\ e_ret[1].prices = <<>> => e_ret[1].price_summary = None
        /\ e_ret[1].prices # <<>> =>
              /\ e_ret[1].price_summary # None
              /\ e_ret[1].price_summary[1] = SummaryOf(e_ret[1].prices)


(***************************************************************************)
(* src/interactions.py: the table of known interactions and its lookup.    *)
(***************************************************************************)
\* One item of the dict KNOWN_INTERACTIONS: the key as written and its value.
InteractionEntry(first, second, severity, warning) ==
    [key |-> <<first, second>>, severity |-> severity, warning |-> warning]

KNOWN_INTERACTIONS ==
    {
     InteractionEntry("aspirina", "warfarina", "alta",
         "Aumenta significativamente el riesgo de sangrado. Consulte a su médico inmediatamente."),
     InteractionEntry("ibuprofeno", "warfarina", "alta",
         "Aumenta el riesgo de sangrado gastrointestinal. Evite esta combinación."),
     InteractionEntry("aspirina", "clopidogrel", "alta",
         "Alto riesgo de sangrado. Solo use bajo supervisión médica estricta."),
     InteractionEntry("alcohol", "metformina", "alta",
         "Riesgo de acidosis láctica, una condición grave. Evite el alcohol."),
     InteractionEntry("metformina", "contraste yodado", "alta",
         "Suspenda metformina antes de estudios con contraste. Consulte a su médico."),
     InteractionEntry("digoxina", "amiodarona", "alta",
         "Puede causar toxicidad por digoxina. Requiere ajuste de dosis."),
     InteractionEntry("atenolol", "verapamilo", "alta",
         "Riesgo de bradicardia severa y bloqueo cardíaco. Evite esta combinación."),
     InteractionEntry("enalapril", "potasio", "media",
         "Puede aumentar el potasio en sangre (hiperpotasemia). Requiere monitoreo."),
     InteractionEntry("losartan", "potasio", "media",
         "Puede aumentar el potasio en sangre. Requiere monitoreo periódico."),
     InteractionEntry("enalapril", "espironolactona", "media",
         "Riesgo de hiperpotasemia. Monitoree niveles de potasio regularmente."),
     InteractionEntry("losartan", "espironolactona", "media",
         "Riesgo de hiperpotasemia. Requiere control de laboratorio."),
     InteractionEntry("glibenclamida", "alcohol", "media",
         "El alcohol puede causar hipoglucemia severa. Limite el consumo."),
     InteractionEntry("insulina", "alcohol", "media",
         "El alcohol puede enmascarar síntomas de hipoglucemia. Precaución."),
     InteractionEntry("alprazolam", "alcohol", "alta",
         "Combinación peligrosa. Puede causar sedación excesiva y depresión respiratoria."),
     InteractionEntry("clonazepam", "alcohol", "alta",
         "Riesgo de sedación profunda y problemas respiratorios. No combine."),
     InteractionEntry("tramadol", "alcohol", "alta",
         "Aumenta el riesgo de depresión respiratoria. Evite el alcohol."),
     InteractionEntry("metronidazol", "alcohol", "media",
         "Causa reacción tipo disulfiram (náuseas, vómitos). No consuma alcohol."),
     InteractionEntry("ciprofloxacino", "antiácidos", "media",
         "Los antiácidos reducen la absorción. Tome con 2 horas de diferencia."),
     InteractionEntry("levotiroxina", "calcio", "baja",
         "El calcio reduce la absorción. Tome con 4 horas de diferencia."),
     InteractionEntry("levotiroxina", "hierro", "baja",
         "El hierro reduce la absorción. Tome con 4 horas de diferencia."),
     InteractionEntry("omeprazol", "clopidogrel", "media",
         "Omeprazol puede reducir la efectividad del clopidogrel. Consulte alternativas.")}

\* suffixes_to_remove, in the order the loop tries them
SuffixesToRemove ==
    <<" tabletas", " tableta", " capsulas", " capsula", " mg", " ml", " gotas",
      " jarabe", " suspension", " inyectable">>

\* name.endswith(suffix)
EndsWithSuffix(name, suffix) ==
    Len(name) >= Len(suffix)
    /\ SubSeq(name, Len(name) - Len(suffix) + 1, Len(name)) = suffix

\* for suffix in suffixes_to_remove: if name.endswith(suffix): name = name[:-len(suffix)]
RECURSIVE RemoveSuffixes(_, _)
RemoveSuffixes(name, suffixes) ==
    IF suffixes = <<>> THEN name
    ELSE RemoveSuffixes(IF EndsWithSuffix(name, suffixes[1])
                        THEN SubSeq(name, 1, Len(name) - Len(suffixes[1]))
                        ELSE name,
                        Tail(suffixes))

\* brand_to_generic
BrandToGeneric ==
    [glucophage |-> "metformina", glafornil |-> "metformina", aspirina |-> "aspirina",
     cardioaspirina |-> "aspirina", coumadin |-> "warfarina", sintrom |-> "acenocumarol",
     plavix |-> "clopidogrel", lipitor |-> "atorvastatina", crestor |-> "rosuvastatina",
     viagra |-> "sildenafil", cialis |-> "tadalafil", rivotril |-> "clonazepam",
     alprazolam |-> "alprazolam", xanax |-> "alprazolam", eutirox |-> "levotiroxina",
     synthroid |-> "levotiroxina"]

\* normalize_drug_name(name)
normalize_drug_name(name) ==
    DictGet(BrandToGeneric, RemoveSuffixes(Strip(Lower(name)), SuffixesToRemove),
            RemoveSuffixes(Strip(Lower(name)), SuffixesToRemove))

\* tuple(sorted([norm1, norm2]))
SortedPair(norm1, norm2) == IF StrLess(norm2, norm1) THEN <<norm2, norm1>> ELSE <<norm1, norm2>>

\* key in KNOWN_INTERACTIONS
KnownKey(key) == \E e \in KNOWN_INTERACTIONS : e.key = key

\* KNOWN_INTERACTIONS[key]
InteractionData(key) == CHOOSE e \in KNOWN_INTERACTIONS : e.key = key

Interaction(drugs, severity, warning) ==
    [drugs |-> drugs, severity |-> severity, warning |-> warning]

\* The two loops of check_interactions from the pair (i, j) on: the warnings
\* in the order the pairs are visited.
RECURSIVE PairWarnings(_, _, _)
PairWarnings(medications, i, j) ==
    IF i > Len(medications) THEN <<>>
    ELSE IF j > Len(medications) THEN PairWarnings(medications, i + 1, i + 2)
    ELSE (IF KnownKey(SortedPair(normalize_drug_name(medications[i]),
                                 normalize_drug_name(medications[j])))
          THEN <<Interaction(<<medications[i], medications[j]>>,
                     InteractionData(SortedPair(normalize_drug_name(medications[i]),
                                                normalize_drug_name(medications[j]))).severity,
                     InteractionData(SortedPair(normalize_drug_name(medications[i]),
                                                normalize_drug_name(medications[j]))).warning)>>
          ELSE <<>>)
         \o PairWarnings(medications, i, j + 1)

\* warnings.sort(key=severity_order...): stable, alta, media, baja, the rest.
SortBySeverity(warnings) ==
    SelectSeq(warnings, LAMBDA w : w.severity = "alta")
    \o SelectSeq(warnings, LAMBDA w : w.severity = "media")
    \o SelectSeq(warnings, LAMBDA w : w.severity = "baja")
    \o SelectSeq(warnings, LAMBDA w : w.severity \notin {"alta", "media", "baja"})

\* check_interactions(medications)
check_interactions(medications) ==
    IF Len(medications) < 2 THEN <<>>
    ELSE SortBySeverity(PairWarnings(medications, 1, 2))

MaxMeds == 2        \* medications of one list

\* Names as a patient enters them: generic names in any letter case, a brand
\* name, a name with a form suffix, and names the table does not hold.
InteractionNames ==
    {"Warfarina", "aspirina", "ALCOHOL", "Glibenclamida", "metformina", "Glucophage",
     "contraste yodado", "Aspirina tabletas", "Potasio", "Losartan", "Vitamina C"}

\* A caller checks a list of medications.
InteractionsCall ==
    /\ h_pc = "idle"
    /\ \E medications \in SeqsUpTo(InteractionNames, MaxMeds) :
        /\ h_args' = Some([medications |-> medications])
        /\ h_ret' = Some(check_interactions(medications))
    /\ h_pc' = "checked"
    /\ UNCHANGED notHelpers

NextInteractions == InteractionsCall \/ HelperReturn

SpecInteractions == Init /\ [][NextInteractions]_vars

\* The two medications are the two drugs of the entry, in either order and
\* in any letter case.
IsPairOf(entry, first, second) ==
    \/ Lower(first) = entry.key[1] /\ Lower(second) = entry.key[2]
    \/ Lower(first) = entry.key[2] /\ Lower(second) = entry.key[1]

\* The result of check_interactions holds the entry for the two medications.
Reported(entry, first, second) ==
    \E k \in 1..Len(h_ret[1]) :
        h_ret[1][k] = Interaction(<<first, second>>, entry.severity, entry.warning)

\* C30: check_interactions reports every interaction listed in
\* KNOWN_INTERACTIONS whenever both of its drugs are in the medication list,
\* whatever the order in which the two were entered and whatever their
\* letter case.
C30_EveryListedInteractionReported ==
    h_pc = "checked" =>
        \A entry \in KNOWN_INTERACTIONS :
            \A i, j \in 1..Len(h_args[1].medications) :
                (i < j /\ IsPairOf(entry, h_args[1].medications[i],
                                   h_args[1].medications[j])) =>
                    Reported(entry, h_args[1].medications[i], h_args[1].medications[j])

====
